---- MODULE Spec2Model ----
(***************************************************************************)
(* Lesson Content Engine of teachnlearn/learning-server: the Document      *)
(* Store (app/services/lesson_store), the Idempotent Mutation Gateway      *)
(* (app/api/routes/lesson_mcp) and the clock both of them read.            *)
(*                                                                         *)
(* Encodings.  A section key is the sequence of its hyphen-separated       *)
(* parts (<<"lesson","2">> is "lesson-2").  A body (section content,       *)
(* generator code) is a sequence of one-character tokens; a JSON array is  *)
(* "[" items "]".  A filename is [key, ext].  One account is modelled.     *)
(***************************************************************************)
EXTENDS Integers, Sequences, FiniteSets, TLC

\* ------------------------------------------------------------------ bounds
MaxTicks == 1          \* clock advances in one behaviour
MaxOps == 3            \* Document Store calls in one behaviour
MaxCalls == 3          \* Gateway calls in one behaviour
MaxTime == 2           \* debounce delays that pass in one behaviour
MaxLessons == 1        \* lessons listed at a time in a Gateway behaviour
MaxPublishes == 2      \* publish calls on the hub in one behaviour

\* ------------------------------------------------------- program constants
DEBOUNCE_DELAY == 1
RESULT_TTL == 60

\* --------------------------------------------------------------- universes
Ids == {"000001", "000002"}
NoDoc == [absent |-> TRUE]
NoGen == [absent |-> TRUE]
None == "None"                     \* Python None where the value is a string
NoneSeq == <<"<None>">>            \* Python None where the value is a word sequence
NoFile == [key |-> <<>>, ext |-> ""]   \* dict.get miss on the sections mapping
NoMeta == [absent |-> TRUE]
Absent == <<"<absent>">>           \* a read that found no object
NoLength == -1         \* a sectionsMeta entry without contentLength

lesson_sections == << <<"lesson">>, <<"exercises">>, <<"samples">> >>
HIDDEN_BASE_KEYS == { <<"samples">>, <<"references">> }
EXERCISE_GENERATOR_FILENAME == [key |-> <<"exercise">>, ext |-> "js"]

Range(s) == { s[i] : i \in DOMAIN s }

\* ------------------------------------------------------------ key parsing
DigitStr == <<"1", "2", "3", "4", "5", "6", "7", "8", "9">>
IsDigit(p) == p = "0" \/ \E i \in DOMAIN DigitStr : DigitStr[i] = p
ToInt(p) == IF p = "0" THEN 0 ELSE CHOOSE i \in DOMAIN DigitStr : DigitStr[i] = p
ToStr(n) == IF n = 0 THEN "0" ELSE DigitStr[n]

HasNumericSuffix(section_key) ==
    Len(section_key) > 1 /\ IsDigit(section_key[Len(section_key)])

_section_base_key(section_key) ==
    IF HasNumericSuffix(section_key)
    THEN SubSeq(section_key, 1, Len(section_key) - 1)
    ELSE section_key

_section_index(section_key) ==
    IF HasNumericSuffix(section_key) THEN ToInt(section_key[Len(section_key)]) ELSE 1

_is_multi_section(section_key) == section_key \in { <<"lesson">>, <<"exercises">> }

_section_filename(section_key) ==
    [key |-> section_key,
     ext |-> IF _section_base_key(section_key) = <<"exercises">> THEN "json" ELSE "html"]

_section_default_body(section_key) ==
    IF _section_base_key(section_key) = <<"exercises">> THEN <<"[", "]">> ELSE <<>>

is_valid_section_key_base(section_key) ==
    _section_base_key(section_key) \in Range(lesson_sections)
is_valid_section_key(section_key) ==
    LET base_key == _section_base_key(section_key) IN
    IF base_key \notin Range(lesson_sections) THEN FALSE
    ELSE IF base_key = section_key THEN TRUE
    ELSE IF ~_is_multi_section(base_key) THEN FALSE
    ELSE _section_index(section_key) > 1

\* ------------------------------------------------------------------ bodies
RECURSIVE LStrip(_)
LStrip(b) == IF b # <<>> /\ Head(b) = " " THEN LStrip(Tail(b)) ELSE b
RECURSIVE RStrip(_)
RStrip(b) == IF b # <<>> /\ b[Len(b)] = " " THEN RStrip(SubSeq(b, 1, Len(b) - 1)) ELSE b
Strip(b) == RStrip(LStrip(b))

\* json.loads: "list" with its items, "other" for valid JSON that is not an
\* array, "invalid" when the text does not parse.
JsonLoads_anylist(b) == [kind |-> "list", items |-> <<>>]
JsonLoads(b) ==
    LET s == Strip(b) IN
    IF Len(s) >= 2 /\ s[1] = "[" /\ s[Len(s)] = "]"
          /\ \A i \in 2..(Len(s) - 1) : s[i] \notin {"[", "]", "{", "}", " "}
    THEN [kind |-> "list", items |-> SubSeq(s, 2, Len(s) - 1)]
    ELSE IF s = <<"{", "}">> THEN [kind |-> "other", items |-> <<>>]
    ELSE [kind |-> "invalid", items |-> <<>>]

JsonDumps(items) == <<"[">> \o items \o <<"]">>

\* ---------------------------------------------------------------- ordering
\* dict access on the ordered sections mapping (a sequence of [key, filename])
SecKeys(sections) == [i \in DOMAIN sections |-> sections[i].key]
SecHas(sections, k) == \E i \in DOMAIN sections : sections[i].key = k
SecGet(sections, k) ==
    IF SecHas(sections, k)
    THEN sections[CHOOSE i \in DOMAIN sections : sections[i].key = k].filename
    ELSE NoFile
SecSet(sections, k, f) ==
    IF SecHas(sections, k)
    THEN [i \in DOMAIN sections |->
            IF sections[i].key = k THEN [key |-> k, filename |-> f] ELSE sections[i]]
    ELSE Append(sections, [key |-> k, filename |-> f])
SecPop(sections, k) == SelectSeq(sections, LAMBDA e : e.key # k)

\* list.sort(key=_section_index): a stable insertion sort
RECURSIVE InsertByIndex(_, _)
InsertByIndex(sorted, e) ==
    IF sorted = <<>> THEN <<e>>
    ELSE IF _section_index(sorted[Len(sorted)].key) <= _section_index(e.key)
         THEN Append(sorted, e)
         ELSE Append(InsertByIndex(SubSeq(sorted, 1, Len(sorted) - 1), e),
                     sorted[Len(sorted)])
RECURSIVE SortByIndex(_)
SortByIndex(s) ==
    IF s = <<>> THEN <<>>
    ELSE InsertByIndex(SortByIndex(SubSeq(s, 1, Len(s) - 1)), s[Len(s)])

RECURSIVE OrderFrom(_, _, _)
OrderFrom(i, sections, ordered) ==
    IF i > Len(lesson_sections) THEN ordered
    ELSE LET matched == SelectSeq(sections,
                 LAMBDA e : _section_base_key(e.key) = lesson_sections[i]
                            /\ ~SecHas(ordered, e.key))
         IN OrderFrom(i + 1, sections, ordered \o SortByIndex(matched))

_order_sections(sections) ==
    LET ordered == OrderFrom(1, sections, <<>>) IN
    ordered \o SelectSeq(sections, LAMBDA e : ~SecHas(ordered, e.key))

\* ------------------------------------------------------ object backend
\* The store state st is [index, docs, blobs, markers]: the account's listing
\* index, the aggregate document per lesson id, the section / generator blobs
\* keyed by <<id, filename>>, and the "lessons/{id}/" folder objects.
EmptyStore ==
    [index |-> <<>>, docs |-> [i \in Ids |-> NoDoc], blobs |-> <<>>, markers |-> {}]

HasBlob_always(st, id, filename) == TRUE
HasBlob(st, id, filename) == <<id, filename>> \in DOMAIN st.blobs
PutBlob(st, id, filename, body) ==
    [st EXCEPT !.blobs = [k \in (DOMAIN st.blobs) \cup {<<id, filename>>} |->
                            IF k = <<id, filename>> THEN body ELSE st.blobs[k]]]
DeleteBlob(st, id, filename) ==
    [st EXCEPT !.blobs = [k \in (DOMAIN st.blobs) \ {<<id, filename>>} |-> st.blobs[k]]]
PutDoc(st, id, lesson) == [st EXCEPT !.docs[id] = lesson]

_load_index(st) == st.index
_save_index(st, entries) == [st EXCEPT !.index = entries]

get(st, lesson_id) == st.docs[lesson_id]

_generate_id(entries) == Ids \ { entries[i].id : i \in DOMAIN entries }

MetaGet(meta_map, k) ==
    IF k \in DOMAIN meta_map THEN meta_map[k]
    ELSE [version |-> 0, contentLength |-> NoLength, updatedAt |-> 0]
MetaSet(meta_map, k, v) ==
    [x \in (DOMAIN meta_map) \cup {k} |-> IF x = k THEN v ELSE meta_map[x]]
NextVersion(meta) == meta.version + 1
MetaPop(meta_map, k) == [x \in (DOMAIN meta_map) \ {k} |-> meta_map[x]]

\* ---------------------------------------------------------------- status
StatusLower(s) ==
    CASE s = "Published" -> "published"
      [] s = "Active" -> "active"
      [] OTHER -> s
IsAuthorControlled(status) == StatusLower(status) \in {"published", "active"}

IsReady(lesson) ==
    /\ lesson.sections # <<>>
    /\ \A i \in DOMAIN lesson.sections :
          LET key == lesson.sections[i].key IN
          \/ _section_base_key(key) \in HIDDEN_BASE_KEYS
          \/ MetaGet(lesson.sectionsMeta, key).contentLength > 0

SyncEntries(entries, lesson_id, lesson) ==
    LET hit == { i \in DOMAIN entries : entries[i].id = lesson_id } IN
    IF hit = {} THEN entries
    ELSE LET first == CHOOSE i \in hit : \A j \in hit : i <= j IN
         [entries EXCEPT ![first].status = lesson.status,
                         ![first].updated_at = lesson.updated_at]

\* returns [st, lesson]: the lesson dict is mutated in place by the code
_sync_ready_status(st, lesson_id, lesson) ==
    IF IsAuthorControlled(lesson.status) THEN [st |-> st, lesson |-> lesson]
    ELSE LET next_status == IF IsReady(lesson) THEN "ready" ELSE "draft"
             synced == IF StatusLower(lesson.status) # next_status
                       THEN [lesson EXCEPT !.status = next_status]
                       ELSE lesson
         IN [st |-> _save_index(st, SyncEntries(_load_index(st), lesson_id, synced)),
             lesson |-> synced]

\* ------------------------------------------------------------- generator
_clear_exercise_generator(st, lesson_id, lesson, next_mode) ==
    LET meta == lesson.exerciseGenerator
        st1 == IF meta # NoGen THEN DeleteBlob(st, lesson_id, meta.filename) ELSE st
        l1 == [lesson EXCEPT !.exerciseGenerator = NoGen]
    IN [st |-> st1,
        lesson |-> IF next_mode # None THEN [l1 EXCEPT !.exerciseMode = next_mode] ELSE l1]

\* --------------------------------------------------------- lesson operations
\* Every operation returns [st, res]; res.tag is "ok", "none" (absent / false)
\* or "raise".
Entry(lesson) ==
    [id |-> lesson.id, title |-> lesson.title, status |-> lesson.status,
     subject |-> lesson.subject, iconUrl |-> None, updated_at |-> lesson.updated_at]

InitialMeta(sections, now) ==
    [k \in Range(SecKeys(sections)) |->
        [version |-> 1, contentLength |-> Len(Strip(_section_default_body(k))),
         updatedAt |-> now]]

RECURSIVE _initialize_sections(_, _, _)
_initialize_sections(st, lesson_id, sections) ==
    IF sections = <<>> THEN st
    ELSE _initialize_sections(
            PutBlob(st, lesson_id, Head(sections).filename,
                    _section_default_body(Head(sections).key)),
            lesson_id, Tail(sections))

create(st, entries, lesson_id, title, status, subject, now) ==
    IF _generate_id(entries) = {} THEN [st |-> st, res |-> [tag |-> "raise"]]
    ELSE
    LET sections == [i \in DOMAIN lesson_sections |->
                        [key |-> lesson_sections[i],
                         filename |-> _section_filename(lesson_sections[i])]]
        lesson_payload ==
            [id |-> lesson_id, title |-> title, status |-> status, subject |-> subject,
             iconUrl |-> None, updated_at |-> now,
             sections |-> sections, sectionsMeta |-> InitialMeta(sections, now),
             exerciseGenerator |-> NoGen, exerciseMode |-> None]
        st1 == [st EXCEPT !.markers = @ \cup {lesson_id}]
        st2 == PutDoc(st1, lesson_id, lesson_payload)
        st3 == _initialize_sections(st2, lesson_id, sections)
        st4 == _save_index(st3, Append(entries, Entry(lesson_payload)))
    IN [st |-> st4, res |-> [tag |-> "ok", lesson |-> lesson_payload]]

FirstEntry(entries, lesson_id) ==
    LET hit == { i \in DOMAIN entries : entries[i].id = lesson_id } IN
    IF hit = {} THEN 0 ELSE CHOOSE i \in hit : \A j \in hit : i <= j

Provided(new, old) == IF new # None THEN new ELSE old
ProvidedSeq(new, old) == IF new # NoneSeq THEN new ELSE old

update(st, lesson, lesson_id, title, status, subject, now) ==
    IF lesson = NoDoc THEN [st |-> st, res |-> [tag |-> "none"]]
    ELSE
    LET updated == [lesson EXCEPT !.title = ProvidedSeq(title, @),
                                  !.status = Provided(status, @),
                                  !.subject = Provided(subject, @),
                                  !.updated_at = now]
        st1 == PutDoc(st, lesson_id, updated)
        entries == _load_index(st1)
        i == FirstEntry(entries, lesson_id)
        saved == IF i # 0
                 THEN [entries EXCEPT ![i].title = ProvidedSeq(title, @),
                                      ![i].status = Provided(status, @),
                                      ![i].subject = Provided(subject, @),
                                      ![i].updated_at = updated.updated_at]
                 ELSE Append(entries, Entry(updated))
    IN [st |-> _save_index(st1, saved), res |-> [tag |-> "ok", lesson |-> updated]]

update_icon_url(st, lesson, lesson_id, icon_url, now) ==
    IF lesson = NoDoc THEN [st |-> st, res |-> [tag |-> "none"]]
    ELSE
    LET updated == [lesson EXCEPT !.iconUrl = icon_url, !.updated_at = now]
        st1 == PutDoc(st, lesson_id, updated)
        entries == _load_index(st1)
        i == FirstEntry(entries, lesson_id)
        saved == IF i # 0
                 THEN [entries EXCEPT ![i].iconUrl = icon_url, ![i].updated_at = now]
                 ELSE entries
    IN [st |-> _save_index(st1, saved), res |-> [tag |-> "ok"]]

\* lessons/_meta/icon_{id}.{ext} and lessons/{id}/public-lesson.html
_icon_key(lesson_id, extension) ==
    <<"_meta", [key |-> <<"icon_", lesson_id>>, ext |-> extension]>>
_report_key(lesson_id) == <<lesson_id, [key |-> <<"public", "lesson">>, ext |-> "html"]>>

put_icon(st, lesson_id, payload, extension) ==
    LET key == _icon_key(lesson_id, extension)
    IN [st |-> PutBlob(st, key[1], key[2], payload), res |-> [tag |-> "ok"]]

put_report(st, lesson_id, html) ==
    LET key == _report_key(lesson_id)
    IN [st |-> PutBlob(st, key[1], key[2], html), res |-> [tag |-> "ok"]]

\* objects under the prefix lessons/{id}/
PrefixExists(st, lesson_id) ==
    \/ st.docs[lesson_id] # NoDoc
    \/ lesson_id \in st.markers
    \/ \E k \in DOMAIN st.blobs : k[1] = lesson_id

delete_lesson_prefix_skip(st, lesson_id) == st
delete_lesson_prefix(st, lesson_id) ==
    [st EXCEPT !.docs[lesson_id] = NoDoc,
               !.markers = @ \ {lesson_id},
               !.blobs = [k \in { x \in DOMAIN st.blobs : x[1] # lesson_id } |-> st.blobs[k]]]

delete(st, entries, lesson_id) ==
    LET remaining == SelectSeq(entries, LAMBDA e : e.id # lesson_id)
        exists == PrefixExists(st, lesson_id)
    IN IF Len(remaining) = Len(entries) /\ ~exists
       THEN [st |-> st, res |-> [tag |-> "none"]]
       ELSE LET st1 == IF Len(remaining) # Len(entries)
                       THEN _save_index(st, remaining) ELSE st
            IN [st |-> delete_lesson_prefix(st1, lesson_id), res |-> [tag |-> "ok"]]

\* a title is the sequence of its words
EndsWithCopy(title) == title # <<>> /\ title[Len(title)] \in {"(Copy)", "(copy)"}
WithCopy(title) ==
    LET t == IF title = <<>> THEN <<"Untitled", "lesson">> ELSE title IN
    IF EndsWithCopy(t) THEN t ELSE Append(t, "(Copy)")

RECURSIVE CopySections(_, _, _, _)
CopySections(st, lesson_id, new_id, sections) ==
    IF sections = <<>> THEN st
    ELSE LET key == Head(sections).key
             filename == Head(sections).filename
             body == IF HasBlob(st, lesson_id, filename)
                     THEN st.blobs[<<lesson_id, filename>>]
                     ELSE _section_default_body(key)
         IN CopySections(PutBlob(st, new_id, filename, body),
                         lesson_id, new_id, Tail(sections))

duplicate(st, lesson, entries, lesson_id, new_id, now) ==
    IF lesson = NoDoc THEN [st |-> st, res |-> [tag |-> "none"]]
    ELSE
    IF _generate_id(entries) = {} THEN [st |-> st, res |-> [tag |-> "raise"]]
    ELSE
    LET sections == IF lesson.sections # <<>> THEN lesson.sections
                    ELSE [i \in DOMAIN lesson_sections |->
                            [key |-> lesson_sections[i],
                             filename |-> _section_filename(lesson_sections[i])]]
        sections_meta == [k \in Range(SecKeys(sections)) |->
                            [version |-> 1, contentLength |-> NoLength, updatedAt |-> now]]
        lesson_payload ==
            [id |-> new_id, title |-> WithCopy(lesson.title), status |-> "draft",
             subject |-> lesson.subject, iconUrl |-> lesson.iconUrl, updated_at |-> now,
             sections |-> sections, sectionsMeta |-> sections_meta,
             exerciseGenerator |-> NoGen, exerciseMode |-> None]
        st1 == [st EXCEPT !.markers = @ \cup {new_id}]
        st2 == PutDoc(st1, new_id, lesson_payload)
        st3 == CopySections(st2, lesson_id, new_id, sections)
        entry == [Entry(lesson_payload) EXCEPT !.iconUrl = lesson.iconUrl]
    IN [st |-> _save_index(st3, Append(entries, entry)),
        res |-> [tag |-> "ok", lesson |-> lesson_payload]]

\* -------------------------------------------------------- section operations
SectionResult(key, content_html) ==
    IF _section_base_key(key) = <<"exercises">> /\ Strip(content_html) # <<>>
          /\ JsonLoads(content_html).kind = "invalid"
    THEN [tag |-> "raise", key |-> key, written |-> content_html]
    ELSE [tag |-> "ok", key |-> key, written |-> content_html]

\* the part shared by put_section and create_section_instance after the blob
\* is written: meta, generator clearing, ordering, readiness, aggregate
\* put_object of the aggregate document: the backend stores it, or raises
\* ClientError and stores nothing
put_aggregate(st, lesson_id, lesson, fault) ==
    IF fault THEN st ELSE PutDoc(st, lesson_id, lesson)

WriteTail(st, lesson, lesson_id, key, version, length, clear, reorder, now, fault) ==
    LET meta_payload == [version |-> version, contentLength |-> length, updatedAt |-> now]
        l1 == [lesson EXCEPT !.sectionsMeta = MetaSet(@, key, meta_payload),
                             !.updated_at = now]
        c == IF clear THEN _clear_exercise_generator(st, lesson_id, l1, "json")
             ELSE [st |-> st, lesson |-> l1]
        l2 == IF reorder THEN [c.lesson EXCEPT !.sections = _order_sections(@)]
              ELSE c.lesson
        y == _sync_ready_status(c.st, lesson_id, l2)
    IN put_aggregate(y.st, lesson_id, y.lesson, fault)

\* put_object of the section content: the backend stores the body, or raises
\* ClientError and stores nothing
put_object_swallowed(st, id, filename, body, fault) ==
    [st |-> IF fault THEN st ELSE PutBlob(st, id, filename, body), raised |-> FALSE]
put_object(st, id, filename, body, fault) ==
    [st |-> IF fault THEN st ELSE PutBlob(st, id, filename, body), raised |-> fault]

put_section(st, lesson, lesson_id, section_key, content_html, allow_create, now, fault) ==
    IF lesson = NoDoc THEN [st |-> st, res |-> [tag |-> "none"]]
    ELSE
    LET known == SecGet(lesson.sections, section_key)
        base_key == _section_base_key(section_key)
    IN
    IF known = NoFile /\ ( \/ ~allow_create
                         \/ base_key \notin Range(lesson_sections)
                         \/ (base_key # section_key /\ ~_is_multi_section(base_key)) )
    THEN [st |-> st, res |-> [tag |-> "none"]]
    ELSE
    LET filename == IF known = NoFile THEN _section_filename(section_key) ELSE known
        l0 == IF known = NoFile
              THEN [lesson EXCEPT !.sections = _order_sections(SecSet(@, section_key, filename))]
              ELSE lesson
        exists == HasBlob(st, lesson_id, filename)
    IN
    IF ~exists /\ ~allow_create THEN [st |-> st, res |-> [tag |-> "none"]]
    ELSE
    LET w == put_object(st, lesson_id, filename, content_html, fault = "content")
        version == NextVersion(MetaGet(l0.sectionsMeta, section_key))
    IN IF w.raised
       THEN [st |-> w.st, res |-> [tag |-> "raise", key |-> section_key, written |-> <<>>]]
       ELSE [st |-> WriteTail(w.st, l0, lesson_id, section_key, version,
                              Len(Strip(content_html)), base_key = <<"exercises">>, TRUE, now,
                              fault = "aggregate"),
             res |-> IF fault = "aggregate"
                     THEN [tag |-> "raise", key |-> section_key, written |-> <<>>]
                     ELSE SectionResult(section_key, content_html)]

MaxOf(S) == CHOOSE x \in S : \A y \in S : y <= x

create_section_instance(st, lesson, lesson_id, base_key, content_html, now, fault) ==
    IF base_key \notin Range(lesson_sections) \/ ~_is_multi_section(base_key)
    THEN [st |-> st, res |-> [tag |-> "none"]]
    ELSE IF lesson = NoDoc THEN [st |-> st, res |-> [tag |-> "none"]]
    ELSE
    LET candidates == { k \in Range(SecKeys(lesson.sections)) : _section_base_key(k) = base_key }
        next_index == IF candidates = {} THEN 1
                      ELSE MaxOf({ _section_index(k) : k \in candidates }) + 1
        new_key == IF next_index = 1 THEN base_key ELSE Append(base_key, ToStr(next_index))
    IN
    IF SecHas(lesson.sections, new_key) THEN [st |-> st, res |-> [tag |-> "none"]]
    ELSE
    LET filename == _section_filename(new_key)
        l0 == [lesson EXCEPT !.sections = _order_sections(SecSet(@, new_key, filename))]
        st1 == PutBlob(st, lesson_id, filename, content_html)
    IN [st |-> WriteTail(st1, l0, lesson_id, new_key, 1, Len(Strip(content_html)),
                         base_key = <<"exercises">>, TRUE, now, fault),
        res |-> IF fault THEN [tag |-> "raise", key |-> new_key, written |-> <<>>]
                ELSE SectionResult(new_key, content_html)]

\* the get_object of append_exercises: the stored text, "" when there is none
ReadRaw(st, lesson, lesson_id, section_key) ==
    IF lesson = NoDoc THEN <<>>
    ELSE LET filename == SecGet(lesson.sections, section_key) IN
         IF filename # NoFile /\ HasBlob(st, lesson_id, filename)
         THEN st.blobs[<<lesson_id, filename>>] ELSE <<>>

append_exercises(st, lesson, raw, lesson_id, items, section_key, now, fault) ==
    IF lesson = NoDoc THEN [st |-> st, res |-> [tag |-> "none"]]
    ELSE IF _section_base_key(section_key) # <<"exercises">>
    THEN [st |-> st, res |-> [tag |-> "none"]]
    ELSE
    LET filename == SecGet(lesson.sections, section_key) IN
    IF filename = NoFile THEN [st |-> st, res |-> [tag |-> "none"]]
    ELSE
    LET payload == JsonLoads(raw) IN
    IF Strip(raw) # <<>> /\ payload.kind # "list"
    THEN [st |-> st, res |-> [tag |-> "raise"]]
    ELSE
    LET existing == (IF Strip(raw) # <<>> THEN payload.items ELSE <<>>) \o items
        updated_payload == JsonDumps(existing)
        st1 == PutBlob(st, lesson_id, filename, updated_payload)
        version == NextVersion(MetaGet(lesson.sectionsMeta, section_key))
    IN [st |-> WriteTail(st1, lesson, lesson_id, section_key, version,
                         Len(Strip(updated_payload)), TRUE, FALSE, now, fault),
        res |-> IF fault THEN [tag |-> "raise"]
                ELSE [tag |-> "ok", key |-> section_key, written |-> updated_payload,
                      appended |-> Len(items), total |-> Len(existing)]]

delete_section(st, lesson, lesson_id, section_key, now, fault) ==
    IF lesson = NoDoc THEN [st |-> st, res |-> [tag |-> "none"]]
    ELSE
    LET filename == SecGet(lesson.sections, section_key) IN
    IF filename = NoFile THEN [st |-> st, res |-> [tag |-> "none"]]
    ELSE
    LET st1 == DeleteBlob(st, lesson_id, filename)
        l1 == [lesson EXCEPT !.sections = _order_sections(SecPop(@, section_key)),
                             !.sectionsMeta = MetaPop(@, section_key),
                             !.updated_at = now]
        y == _sync_ready_status(st1, lesson_id, l1)
    IN [st |-> put_aggregate(y.st, lesson_id, y.lesson, fault),
        res |-> [tag |-> IF fault THEN "raise" ELSE "ok"]]

put_exercise_generator(st, lesson, lesson_id, code, now) ==
    IF lesson = NoDoc THEN [st |-> st, res |-> [tag |-> "none"]]
    ELSE
    LET filename == EXERCISE_GENERATOR_FILENAME
        existing == lesson.exerciseGenerator
        c == IF existing # NoGen /\ existing.filename # filename
             THEN _clear_exercise_generator(st, lesson_id, lesson, None)
             ELSE [st |-> st, lesson |-> lesson]
        st1 == PutBlob(c.st, lesson_id, filename, code)
        sections == SecSet(c.lesson.sections, <<"exercises">>, filename)
        exercises_filename == SecGet(sections, <<"exercises">>)
        st2 == DeleteBlob(st1, lesson_id, exercises_filename)
        meta_payload ==
            [version |-> NextVersion(MetaGet(c.lesson.sectionsMeta, <<"exercises">>)),
             contentLength |-> 0, updatedAt |-> now]
        meta == [updatedAt |-> now, filename |-> filename, contentLength |-> Len(code)]
        l1 == [c.lesson EXCEPT !.sections = sections,
                               !.sectionsMeta = MetaSet(@, <<"exercises">>, meta_payload),
                               !.exerciseGenerator = meta,
                               !.exerciseMode = "generator",
                               !.updated_at = now]
        st3 == PutDoc(st2, lesson_id, l1)
        entries == _load_index(st3)
        i == FirstEntry(entries, lesson_id)
        saved == IF i # 0 THEN [entries EXCEPT ![i].updated_at = now]
                 ELSE Append(entries, Entry(l1))
    IN [st |-> _save_index(st3, saved),
        res |-> [tag |-> "ok", key |-> <<"exercises">>, written |-> code, meta |-> meta]]

\* ------------------------------------------------------------------ reads
get_section(st, lesson_id, section_key) ==
    LET lesson == get(st, lesson_id) IN
    IF lesson = NoDoc THEN Absent
    ELSE LET filename == SecGet(lesson.sections, section_key) IN
         IF filename = NoFile \/ ~HasBlob(st, lesson_id, filename) THEN Absent
         ELSE st.blobs[<<lesson_id, filename>>]

get_section_meta(st, lesson_id, section_key) ==
    LET lesson == get(st, lesson_id) IN
    IF lesson = NoDoc \/ section_key \notin DOMAIN lesson.sectionsMeta THEN NoMeta
    ELSE lesson.sectionsMeta[section_key]

get_exercise_generator(st, lesson_id) ==
    LET lesson == get(st, lesson_id) IN
    IF lesson = NoDoc \/ lesson.exerciseGenerator = NoGen THEN Absent
    ELSE IF ~HasBlob(st, lesson_id, lesson.exerciseGenerator.filename) THEN Absent
    ELSE st.blobs[<<lesson_id, lesson.exerciseGenerator.filename>>]

\* ------------------------------------------------------------------ inputs
HtmlBodies == { <<" ">>, <<"a">> }
ExerciseBodies == { <<>>, <<"[", "q", "]">>, <<"{", "}">> }
PutKeys == { <<"lesson">>, <<"exercises">>, <<"exercises", "2">>, <<"samples", "2">> }
BaseKeys == { <<"lesson">>, <<"exercises">>, <<"samples">> }
BodiesFor(key) ==
    IF _section_base_key(key) = <<"exercises">> THEN ExerciseBodies ELSE HtmlBodies

\* a Document Store call: the operation and its arguments
Call(op, id) ==
    [op |-> op, id |-> id, key |-> <<>>, body |-> <<>>, allow |-> FALSE, fault |-> "none",
     title |-> NoneSeq, status |-> None, subject |-> None, url |-> None]

CreateCalls ==
    { [Call("create", "") EXCEPT !.title = title, !.status = status] :
        title \in { <<"T">> }, status \in { "draft", "ready" } }
UpdateCalls ==
    { [Call("update", id) EXCEPT !.title = title, !.status = status, !.subject = subject] :
        id \in Ids, title \in { NoneSeq, <<"U", "(Copy)">> }, status \in { None, "draft", "Published" },
        subject \in { None } }
UpdateIconUrlCalls ==
    { [Call("update_icon_url", id) EXCEPT !.url = url] : id \in Ids, url \in { "icon.png" } }
DeleteCalls == { Call("delete", id) : id \in Ids }
DuplicateCalls == { Call("duplicate", id) : id \in Ids }
\* where a backend write of a section operation fails: nowhere, at the write
\* of the section content ("content") or at the write of the aggregate
\* ("aggregate"); the calls of a behaviour fail at the content write only
Faults == {"none", "content"}
PutSectionCalls ==
    UNION { { [Call("put_section", id) EXCEPT !.key = key, !.body = body, !.allow = allow,
                                              !.fault = fault] :
                body \in BodiesFor(key) } :
            id \in Ids, key \in PutKeys, allow \in BOOLEAN, fault \in Faults }
CreateSectionInstanceCalls ==
    UNION { { [Call("create_section_instance", id) EXCEPT !.key = key, !.body = body] :
                body \in BodiesFor(key) } :
            id \in Ids, key \in BaseKeys }
AppendExercisesCalls ==
    { [Call("append_exercises", id) EXCEPT !.key = key, !.body = items] :
        id \in Ids, key \in PutKeys, items \in { <<"q">>, <<"r", "s">> } }
DeleteSectionCalls ==
    { [Call("delete_section", id) EXCEPT !.key = key] : id \in Ids, key \in PutKeys }
PutExerciseGeneratorCalls ==
    { [Call("put_exercise_generator", id) EXCEPT !.body = code] : id \in Ids, code \in { <<"c">> } }
PutIconCalls ==
    { [Call("put_icon", id) EXCEPT !.body = payload, !.url = extension] :
        id \in Ids, payload \in { <<"i">> }, extension \in { "png" } }
PutReportCalls ==
    { [Call("put_report", id) EXCEPT !.body = html] : id \in Ids, html \in { <<"r">> } }

StoreCalls ==
    CreateCalls \cup UpdateCalls \cup UpdateIconUrlCalls \cup DeleteCalls
    \cup DuplicateCalls \cup PutSectionCalls \cup CreateSectionInstanceCalls
    \cup AppendExercisesCalls \cup DeleteSectionCalls \cup PutExerciseGeneratorCalls
    \cup PutIconCalls \cup PutReportCalls

\* the operations whose body runs under "with self._lock"
Locked ==
    { "create", "update", "update_icon_url", "delete", "duplicate",
      "put_exercise_generator" }

\* what the reads a call makes before its first write return: the aggregate
\* (for create, delete and duplicate also the listing index) and, for
\* append_exercises, the stored exercises text
Snapshot(st, call) ==
    [lesson |-> IF call.id \in Ids THEN get(st, call.id) ELSE NoDoc,
     entries |-> _load_index(st),
     raw |-> IF call.op = "append_exercises" /\ call.id \in Ids
             THEN ReadRaw(st, get(st, call.id), call.id, call.key) ELSE <<>>]

\* secrets.randbelow: any id the listing does not hold
IdChoices(call, entries) ==
    IF call.op \in {"create", "duplicate"} /\ _generate_id(entries) # {}
    THEN _generate_id(entries) ELSE {""}

\* the rest of the call, run on the store as it is now
Exec(st, snap, call, new_id, t) ==
    CASE call.op = "create" ->
            create(st, snap.entries, new_id, call.title, call.status, call.subject, t)
      [] call.op = "update" ->
            update(st, snap.lesson, call.id, call.title, call.status, call.subject, t)
      [] call.op = "update_icon_url" ->
            update_icon_url(st, snap.lesson, call.id, call.url, t)
      [] call.op = "delete" -> delete(st, snap.entries, call.id)
      [] call.op = "duplicate" ->
            duplicate(st, snap.lesson, snap.entries, call.id, new_id, t)
      [] call.op = "put_section" ->
            put_section(st, snap.lesson, call.id, call.key, call.body, call.allow, t,
                        call.fault)
      [] call.op = "create_section_instance" ->
            create_section_instance(st, snap.lesson, call.id, call.key, call.body, t,
                                    call.fault = "aggregate")
      [] call.op = "append_exercises" ->
            append_exercises(st, snap.lesson, snap.raw, call.id, call.body, call.key, t,
                             call.fault = "aggregate")
      [] call.op = "delete_section" ->
            delete_section(st, snap.lesson, call.id, call.key, t, call.fault = "aggregate")
      [] call.op = "put_exercise_generator" ->
            put_exercise_generator(st, snap.lesson, call.id, call.body, t)
      [] call.op = "put_icon" -> put_icon(st, call.id, call.body, call.url)
      [] call.op = "put_report" -> put_report(st, call.id, call.body)

\* ------------------------------------------------------------------- state
Threads == 1..2

\* a publish that was not made yet, and the history of its broadcast
NoTask ==
    [pc |-> "none", email |-> "", payload |-> 0, delay_seconds |-> 0,
     pending |-> <<>>, stale |-> {},
     \* history of the broadcast
     fired |-> 0, carried |-> 0, attempted |-> {}, raised |-> {},
     \* history kept by PublishRecorded: the account's connections at the call
     registered |-> {}]

VARIABLES
    store,      \* the object backend: [index, docs, blobs, markers]
    now,        \* the clock read by datetime.now() and time.monotonic()
    ops,        \* Document Store calls completed so far
    last,       \* the Document Store call completed last, if it had an effect
    lock,       \* LessonStoreBase._lock: 0 when free, else the holding thread
    inflight,   \* per request thread: the Document Store call it is inside
    latest,     \* DebounceGate._latest: fingerprint -> token
    gate_lock,  \* DebounceGate._lock: 0 when free, else the call holding it
    entries,    \* RecentResultCache._entries: fingerprint -> (ts, payload)
    calls,      \* per Gateway call: where it is in its tool function
    published,  \* events handed to LessonEventHub.publish, in order
    protected,  \* lessons the auth collaborator flags as protected
    _connections,   \* LessonEventHub._connections: account -> set of websockets
    _lock,      \* LessonEventHub._lock: 0 when free, else the coroutine holding it
    _loop,      \* LessonEventHub._loop is set
    tasks,      \* per publish: the _broadcast_with_delay coroutine it scheduled
    closed      \* websockets on which send_json fails

storevars == <<store, ops, last, lock, inflight>>
gatewayvars == <<latest, gate_lock, entries, calls, published, protected>>
hubvars == <<_connections, _lock, _loop, tasks, closed>>
vars ==
    <<store, now, ops, last, lock, inflight, latest, gate_lock, entries, calls, published,
      protected,
      _connections, _lock, _loop, tasks, closed>>

NoCall ==
    [op |-> "none", id |-> "", key |-> <<>>, body |-> <<>>, tag |-> "none",
     arg |-> <<>>, allow |-> FALSE, appended |-> 0, total |-> 0,
     title |-> NoneSeq, status |-> None, subject |-> None, new_id |-> ""]
NoToken == -1
NoRequest ==
    [tool |-> "none", lesson_id |-> "", section_key |-> <<>>, content_html |-> <<>>,
     title |-> NoneSeq]
NoResponse == [kind |-> "none", msg |-> "", id |-> "", key |-> <<>>, n |-> 0]
NoOut == [tag |-> "none", key |-> <<>>, n |-> 0]
NewCall ==
    [pc |-> "new", req |-> NoRequest, token |-> NoToken, wake |-> 0, out |-> NoOut,
     result |-> NoResponse,
     \* history of the call
     hit |-> FALSE, hitval |-> NoResponse, overlapped |-> {}, superseded |-> FALSE,
     stale |-> FALSE, flagged |-> FALSE, stores |-> 0, cachew |-> 0, pubs |-> 0]
Idle == [pc |-> "idle", call |-> Call("none", ""), snap |-> [lesson |-> NoDoc, entries |-> <<>>, raw |-> <<>>]]

Init ==
    /\ store = EmptyStore
    /\ now = 0
    /\ ops = 0
    /\ last = NoCall
    /\ lock = 0
    /\ inflight = [t \in Threads |-> Idle]
    /\ latest = <<>>
    /\ gate_lock = 0
    /\ entries = <<>>
    /\ calls = [c \in 1..MaxCalls |-> NewCall]
    /\ published = <<>>
    /\ protected = {}
    /\ _connections = <<>>
    /\ _lock = 0
    /\ _loop = FALSE
    /\ tasks = [p \in 1..MaxPublishes |-> NoTask]
    /\ closed = {}

Tick ==
    /\ now < MaxTicks
    /\ now' = now + 1
    /\ UNCHANGED <<storevars, gatewayvars, hubvars>>

Outcome(r, call, new_id) ==
    [op |-> call.op,
     id |-> IF call.op = "create" THEN new_id ELSE call.id,
     key |-> IF r.res.tag = "ok" /\ call.op = "create_section_instance"
             THEN r.res.key ELSE call.key,
     body |-> IF r.res.tag = "ok" /\ call.op = "append_exercises"
              THEN r.res.written ELSE call.body,
     tag |-> r.res.tag,
     arg |-> call.body,
     allow |-> call.allow,
     appended |-> IF r.res.tag = "ok" /\ call.op = "append_exercises"
                  THEN r.res.appended ELSE 0,
     total |-> IF r.res.tag = "ok" /\ call.op = "append_exercises"
               THEN r.res.total ELSE 0,
     title |-> IF call.op = "update" THEN call.title ELSE NoneSeq,
     status |-> IF call.op = "update" THEN call.status ELSE None,
     subject |-> IF call.op = "update" THEN call.subject ELSE None,
     new_id |-> IF call.op = "duplicate" THEN new_id ELSE ""]

\* A Document Store call run from its first read to its last write with no
\* other call in between.  A call that returns absent / false (or raises)
\* before its first write changes nothing.
Returns(r, call, new_id) ==
    IF r.st = store /\ r.res.tag # "ok" THEN UNCHANGED vars
    ELSE /\ ops < MaxOps
         /\ ops' = ops + 1
         /\ store' = r.st
         /\ last' = Outcome(r, call, new_id)
         /\ UNCHANGED <<now, lock, inflight, gatewayvars, hubvars>>

Do(call) ==
    \E new_id \in IdChoices(call, _load_index(store)) :
        Returns(Exec(store, Snapshot(store, call), call, new_id, now), call, new_id)

Create == \E call \in CreateCalls : Do(call)
Update == \E call \in UpdateCalls : Do(call)
UpdateIconUrl == \E call \in UpdateIconUrlCalls : Do(call)
Delete == \E call \in DeleteCalls : Do(call)
Duplicate == \E call \in DuplicateCalls : Do(call)
PutSection == \E call \in PutSectionCalls : Do(call)
CreateSectionInstance == \E call \in CreateSectionInstanceCalls : Do(call)
AppendExercises == \E call \in AppendExercisesCalls : Do(call)
DeleteSection == \E call \in DeleteSectionCalls : Do(call)
PutExerciseGenerator == \E call \in PutExerciseGeneratorCalls : Do(call)
PutIcon == \E call \in PutIconCalls : Do(call)
PutReport == \E call \in PutReportCalls : Do(call)

Next ==
    \/ Tick
    \/ Create
    \/ Update
    \/ UpdateIconUrl
    \/ Delete
    \/ Duplicate
    \/ PutSection
    \/ CreateSectionInstance
    \/ AppendExercises
    \/ DeleteSection
    \/ PutExerciseGenerator
    \/ PutIcon
    \/ PutReport

Spec == Init /\ [][Next]_vars

\* ------------------------------------------------- concurrent request threads
\* The same calls issued by request threads that run side by side.  Enter is
\* the call up to and including the reads it makes before its first write
\* (after taking the lock when the operation takes it); Leave is the rest, on
\* the store as it is then.
Enter(t) ==
    /\ inflight[t].pc = "idle"
    /\ ops + Cardinality({ u \in Threads : inflight[u].pc = "running" }) < MaxOps
    /\ \E call \in StoreCalls :
        /\ call.op \in Locked => lock = 0
        /\ lock' = IF call.op \in Locked THEN t ELSE lock
        /\ inflight' = [inflight EXCEPT
                          ![t] = [pc |-> "running", call |-> call,
                                  snap |-> Snapshot(store, call)]]
    /\ UNCHANGED <<store, now, ops, last, gatewayvars, hubvars>>

Leave(t) ==
    /\ inflight[t].pc = "running"
    /\ LET call == inflight[t].call IN
       \E new_id \in IdChoices(call, inflight[t].snap.entries) :
          LET r == Exec(store, inflight[t].snap, call, new_id, now) IN
          /\ store' = r.st
          /\ last' = IF r.st = store /\ r.res.tag # "ok" THEN NoCall
                     ELSE Outcome(r, call, new_id)
          /\ ops' = ops + 1
          /\ lock' = IF call.op \in Locked THEN 0 ELSE lock
    /\ inflight' = [inflight EXCEPT ![t] = Idle]
    /\ UNCHANGED <<now, gatewayvars, hubvars>>

NextConc ==
    \/ Tick
    \/ \E t \in Threads : Enter(t)
    \/ \E t \in Threads : Leave(t)

SpecConc == Init /\ [][NextConc]_vars

\* --------------------------------------------------------------- the Gateway
\* One authenticated account; a fingerprint is the tool name, the account and
\* the arguments (the digest is taken to be collision free).
Email == "a@x"
cache_key(tool, email, payload) == <<tool, email, payload>>
Fingerprint(req) ==
    cache_key(req.tool, Email,
              [lesson_id |-> req.lesson_id, section_key |-> req.section_key,
               content_html |-> req.content_html, title |-> req.title])

Response(kind, msg, id, key, n) ==
    [kind |-> kind, msg |-> msg, id |-> id, key |-> key, n |-> n]
Debounced == Response("debounced", "", "", <<>>, 0)

GatewayIds == {"000001"}
GatewayRequests ==
    { [NoRequest EXCEPT !.tool = "lesson_section_create", !.lesson_id = id,
                        !.section_key = key, !.content_html = <<"a">>] :
        id \in GatewayIds, key \in { <<"lesson">>, <<"exercises">> } }
    \cup { [NoRequest EXCEPT !.tool = "lesson_update", !.lesson_id = id,
                             !.title = <<"U">>] : id \in GatewayIds }
    \cup { [NoRequest EXCEPT !.tool = "lesson_delete", !.lesson_id = id] :
             id \in GatewayIds }

\* the client also writes a second content to the section
ClientRequests ==
    GatewayRequests
    \cup { [NoRequest EXCEPT !.tool = "lesson_section_create", !.lesson_id = id,
                             !.section_key = <<"lesson">>, !.content_html = <<"b">>] :
             id \in GatewayIds }

is_exercise_key(value) == \E i \in 1..Len(value) : value[i] \in {"exercise", "exercises"}

is_protected_lesson(flagged, lesson_id) == lesson_id \in flagged

_blocked_if_protected(flagged, lesson_id) ==
    IF lesson_id = "" THEN NoResponse
    ELSE IF is_protected_lesson(flagged, lesson_id)
    THEN Response("error", "lesson is protected", "", <<>>, 0)
    ELSE NoResponse

\* the checks a tool makes before it looks at the result cache
Validate(req, flagged) ==
    IF req.tool # "lesson_section_create" THEN NoResponse
    ELSE IF req.section_key = <<>>
    THEN Response("error", "section_key is required", "", <<>>, 0)
    ELSE IF is_exercise_key(req.section_key)
    THEN Response("error", "exercise sections use /sections/exercises endpoints", "", <<>>, 0)
    ELSE IF ~is_valid_section_key(req.section_key)
    THEN Response("error", "invalid section_key", "", req.section_key, 0)
    ELSE _blocked_if_protected(flagged, req.lesson_id)

\* RecentResultCache
_purge_keep(cache, t) == cache
_purge(cache, t) ==
    LET kept == { k \in DOMAIN cache : ~(t - cache[k].ts > RESULT_TTL) }
    IN [k \in kept |-> cache[k]]
CacheGet_miss(cache, k) == NoResponse
CacheGet(cache, k) == IF k \in DOMAIN cache THEN cache[k].payload ELSE NoResponse
CacheSet(cache, k, payload, t) == (k :> [ts |-> t, payload |-> payload]) @@ _purge(cache, t)

\* DebounceGate.should_run after the sleep
should_run_global(table, k, token) ==
    k \in DOMAIN table /\ \A j \in DOMAIN table : table[j] <= token
should_run_inverted(table, k, token) == k \in DOMAIN table /\ table[k] # token
should_run(table, k, token) == k \in DOMAIN table /\ table[k] = token

get_exercise_question_count(st, lesson_id, section_key) ==
    LET section == get_section(st, lesson_id, section_key) IN
    IF section = Absent THEN -1
    ELSE IF _section_base_key(section_key) # <<"exercises">> THEN 0
    ELSE LET parsed == JsonLoads(section) IN
         IF parsed.kind = "list" THEN Len(parsed.items) ELSE 0

\* the tool's try block: the Document Store call and what the tool keeps of it
ToolCall(st, req, t) ==
    CASE req.tool = "lesson_section_create" ->
            LET r == put_section(st, get(st, req.lesson_id), req.lesson_id,
                                      req.section_key, req.content_html, TRUE, t, "none")
            IN [st |-> r.st, executed |-> 1,
                out |-> IF r.res.tag # "ok" THEN [NoOut EXCEPT !.tag = r.res.tag]
                        ELSE LET n == get_exercise_question_count(r.st, req.lesson_id, r.res.key)
                             IN IF n < 0 THEN [NoOut EXCEPT !.key = r.res.key]
                                ELSE [tag |-> "ok", key |-> r.res.key, n |-> n]]
      [] req.tool = "lesson_update" ->
            \* store.update() has no parameter "content": the call raises TypeError
            [st |-> st, executed |-> 1, out |-> [NoOut EXCEPT !.tag = "typeerror"]]
      [] req.tool = "lesson_delete" ->
            LET r == delete(st, _load_index(st), req.lesson_id)
            IN [st |-> r.st, executed |-> 1, out |-> [NoOut EXCEPT !.tag = r.res.tag]]

Payload(req, out) ==
    IF req.tool = "lesson_delete" THEN Response("deleted", "", req.lesson_id, <<>>, 0)
    ELSE Response("section", "", "", out.key, out.n)

Failure(req, out, cache) ==
    CASE out.tag = "typeerror" -> Response("exception", "TypeError", "", <<>>, 0)
      [] out.tag = "raise" -> Response("error", "RuntimeError", "", req.section_key, 0)
      [] req.tool = "lesson_delete" ->
            IF CacheGet(cache, Fingerprint(req)) # NoResponse
            THEN CacheGet(cache, Fingerprint(req))
            ELSE Response("error", "lesson not found", req.lesson_id, <<>>, 0)
      [] OTHER -> Response("error", "section not found", "", out.key, 0)

Event(req, out) ==
    IF req.tool = "lesson_delete"
    THEN [type |-> "lesson.deleted", lessonId |-> req.lesson_id, sectionKey |-> <<>>,
          delay |-> 0]
    ELSE [type |-> "section.created", lessonId |-> req.lesson_id, sectionKey |-> out.key,
          delay |-> 1]

Unexpired(cache, k, t) == k \in DOMAIN cache /\ t - cache[k].ts <= RESULT_TTL

\* the result cache after the tool's Document Store call: RESULT_CACHE.set on
\* success only; lesson_delete looks the cache up again when delete() is false
Remember_always(cache, req, out, t) ==
    CacheSet(cache, Fingerprint(req), Payload(req, out), t)
Remember(cache, req, out, t) ==
    IF out.tag = "ok" THEN CacheSet(cache, Fingerprint(req), Payload(req, out), t)
    ELSE IF out.tag = "none" /\ req.tool = "lesson_delete" THEN _purge(cache, t)
    ELSE cache

\* events.publish at the end of the tool, reached on success only
Announce_always(log, req, out) == Append(log, Event(req, out))
Announce(log, req, out) == IF out.tag = "ok" THEN Append(log, Event(req, out)) ELSE log

\* the tool up to the first lock of DEBOUNCE.should_run: validation,
\* RESULT_CACHE.get and, on a miss, the reading of time.monotonic()
InvokeWith(c, requests) ==
    /\ calls[c].pc = "new"
    /\ c > 1 => calls[c - 1].pc # "new"
    /\ \E req \in requests :
        LET err == Validate(req, protected)
            fp == Fingerprint(req)
            purged == _purge(entries, now)
            cached == CacheGet(purged, fp)
        IN IF err # NoResponse
           THEN /\ calls' = [calls EXCEPT ![c] =
                       [@ EXCEPT !.pc = "done", !.req = req, !.result = err,
                                 !.flagged = req.lesson_id \in protected]]
                /\ UNCHANGED entries
           ELSE /\ entries' = purged
                /\ calls' = [calls EXCEPT ![c] =
                       [@ EXCEPT !.pc = IF cached # NoResponse THEN "done" ELSE "miss",
                                 !.req = req,
                                 !.result = cached,
                                 !.token = IF cached # NoResponse THEN NoToken ELSE now,
                                 !.hit = Unexpired(entries, fp, now),
                                 !.stale = fp \in DOMAIN entries
                                           /\ ~Unexpired(entries, fp, now),
                                 !.flagged = req.lesson_id \in protected,
                                 !.hitval = IF Unexpired(entries, fp, now)
                                            THEN entries[fp].payload ELSE NoResponse]]
    /\ UNCHANGED <<storevars, now, latest, gate_lock, published, protected, hubvars>>

Invoke(c) == InvokeWith(c, GatewayRequests)

\* DebounceGate.should_run: the token is stored under the lock, the lock is
\* released, the sleep begins
Register(c) ==
    /\ calls[c].pc = "miss"
    /\ gate_lock = 0
    /\ gate_lock' = 0
    /\ LET fp == Fingerprint(calls[c].req)
           token == calls[c].token
           waiting == { d \in 1..MaxCalls : d # c /\ calls[d].pc = "waiting"
                                            /\ Fingerprint(calls[d].req) = fp }
       IN /\ latest' = (fp :> token) @@ latest
          /\ calls' = [d \in 1..MaxCalls |->
                IF d = c
                THEN [calls[c] EXCEPT !.pc = "waiting",
                                      !.wake = now + DEBOUNCE_DELAY,
                                      !.overlapped = waiting]
                ELSE IF d \in waiting /\ calls[d].token < token
                THEN [calls[d] EXCEPT !.superseded = TRUE]
                ELSE calls[d]]
    /\ UNCHANGED <<storevars, now, entries, published, protected, hubvars>>

\* the sleep is over: DebounceGate.should_run's answer, taken under the lock
Wake(c) ==
    /\ calls[c].pc = "waiting"
    /\ now >= calls[c].wake
    /\ gate_lock = 0
    /\ gate_lock' = 0
    /\ calls' = [calls EXCEPT ![c] =
          IF should_run(latest, Fingerprint(calls[c].req), calls[c].token)
          THEN [@ EXCEPT !.pc = "run"]
          ELSE [@ EXCEPT !.pc = "done", !.result = Debounced]]
    /\ UNCHANGED <<storevars, now, latest, entries, published, protected, hubvars>>

\* the rest of the tool: the Document Store call, RESULT_CACHE.set,
\* events.publish and the return
Run(c) ==
    /\ calls[c].pc = "run"
    /\ LET req == calls[c].req
           r == ToolCall(store, req, now)
           out == r.out
       IN /\ store' = r.st
          /\ entries' = Remember(entries, req, out, now)
          /\ published' = Announce(published, req, out)
          /\ IF out.tag = "ok"
             THEN /\ calls' = [calls EXCEPT ![c] =
                         [@ EXCEPT !.pc = "done", !.out = out,
                                   !.result = Payload(req, out),
                                   !.stores = @ + r.executed,
                                   !.cachew = @ + 1, !.pubs = @ + 1]]
             ELSE /\ calls' = [calls EXCEPT ![c] =
                         [@ EXCEPT !.pc = "done", !.out = out,
                                   !.result = Failure(req, out, _purge(entries, now)),
                                   !.stores = @ + r.executed]]
    /\ UNCHANGED <<now, ops, last, lock, inflight, latest, gate_lock, protected, hubvars>>

\* POST /lesson
create_lesson ==
    /\ \E new_id \in _generate_id(_load_index(store)) :
          /\ store' = create(store, _load_index(store), new_id, <<"T">>, "draft", None, now).st
          /\ published' = Append(published,
                [type |-> "lesson.created", lessonId |-> new_id, sectionKey |-> <<>>,
                 delay |-> 0])
    /\ Len(_load_index(store)) < MaxLessons
    /\ UNCHANGED <<now, ops, last, lock, inflight, latest, gate_lock, entries, calls, protected, hubvars>>

\* time passes: one debounce delay
Elapse ==
    /\ now < MaxTime
    /\ now' = now + DEBOUNCE_DELAY
    /\ UNCHANGED <<storevars, gatewayvars, hubvars>>

NextGateway ==
    \/ Elapse
    \/ create_lesson
    \/ \E c \in 1..MaxCalls : Invoke(c)
    \/ \E c \in 1..MaxCalls : Register(c)
    \/ \E c \in 1..MaxCalls : Wake(c)
    \/ \E c \in 1..MaxCalls : Run(c)

SpecGateway == Init /\ [][NextGateway]_vars

\* ------------------------------------------------------ one client, in turn
\* A client that issues its Gateway calls one after another and lets any
\* amount of time pass between them, while lessons may become protected.
Request(c) ==
    /\ \A d \in 1..MaxCalls : calls[d].pc \in {"new", "done"}
    /\ InvokeWith(c, ClientRequests)

\* time.sleep(self._delay) of DebounceGate.should_run
Sleep(c) ==
    /\ calls[c].pc = "waiting"
    /\ now < calls[c].wake
    /\ now' = calls[c].wake
    /\ UNCHANGED <<storevars, gatewayvars, hubvars>>

\* between two calls the monotonic clock advances by the TTL or just past it
Expire ==
    /\ \A d \in 1..MaxCalls : calls[d].pc \in {"new", "done"}
    /\ now < MaxTime * RESULT_TTL
    /\ \E d \in {RESULT_TTL, RESULT_TTL + 1} : now' = now + d
    /\ UNCHANGED <<storevars, gatewayvars, hubvars>>

\* the auth collaborator flags a lesson as protected
Protect ==
    /\ \E id \in GatewayIds \ protected : protected' = protected \cup {id}
    /\ UNCHANGED <<storevars, now, latest, gate_lock, entries, calls, published, hubvars>>

NextClient ==
    \/ \E c \in 1..MaxCalls : Sleep(c)
    \/ Expire
    \/ Protect
    \/ create_lesson
    \/ \E c \in 1..MaxCalls : Request(c)
    \/ \E c \in 1..MaxCalls : Register(c)
    \/ \E c \in 1..MaxCalls : Wake(c)
    \/ \E c \in 1..MaxCalls : Run(c)

SpecClient == Init /\ [][NextClient]_vars

\* ------------------------------------------------------ the Live Update Hub
\* LessonEventHub on its event loop.  A coroutine runs without interruption
\* from one await that suspends it to the next; an "async with self._lock"
\* whose body has no await is entered and left within one such run.
Accounts == { "a@x", "b@x" }
WebSockets == { "w1", "w2" }
\* every publish carries an event of its own: event p for the p-th publish
Payloads(p) == { p }
Delays == { 0, 1 }

\* self._connections.get(email, set())
ConnGet(connections, email) ==
    IF email \in DOMAIN connections THEN connections[email] ELSE {}

connect(connections, email, websocket) ==
    [a \in (DOMAIN connections) \cup {email} |->
        IF a = email THEN ConnGet(connections, email) \cup {websocket} ELSE connections[a]]

disconnect(connections, email, websocket) ==
    LET sockets == ConnGet(connections, email) IN
    IF sockets = {} THEN connections
    ELSE IF sockets \ {websocket} = {}
    THEN [a \in (DOMAIN connections) \ {email} |-> connections[a]]
    ELSE [connections EXCEPT ![email] = sockets \ {websocket}]

\* publish: the coroutine is handed to self._loop, or to the running loop of
\* the caller; a caller with neither drops the event
publish_running_only(pending_tasks, p, loop_set, running_loop, email, payload, delay_seconds) ==
    [pending_tasks EXCEPT ![p] =
        [NoTask EXCEPT !.pc = IF running_loop THEN "scheduled" ELSE "dropped",
                       !.email = email, !.payload = payload,
                       !.delay_seconds = delay_seconds]]
publish_coalesced(pending_tasks, p, loop_set, running_loop, email, payload, delay_seconds) ==
    [q \in DOMAIN pending_tasks |->
        IF q = p
        THEN [NoTask EXCEPT !.pc = IF loop_set \/ running_loop THEN "scheduled" ELSE "dropped",
                            !.email = email, !.payload = payload,
                            !.delay_seconds = delay_seconds]
        ELSE IF pending_tasks[q].pc = "scheduled" /\ pending_tasks[q].email = email
        THEN [pending_tasks[q] EXCEPT !.pc = "cancelled"]
        ELSE pending_tasks[q]]
publish(pending_tasks, p, loop_set, running_loop, email, payload, delay_seconds) ==
    [pending_tasks EXCEPT ![p] =
        [NoTask EXCEPT !.pc = IF loop_set \/ running_loop THEN "scheduled" ELSE "dropped",
                       !.email = email, !.payload = payload,
                       !.delay_seconds = delay_seconds]]

\* the first "async with self._lock" of broadcast: the sockets it lists and
\* the holder of the lock when the block is left
broadcast_snapshot_all(connections, email, t) ==
    [sockets |-> UNION { connections[a] : a \in DOMAIN connections }, lock |-> 0]
broadcast_snapshot_at_publish(connections, email, t) ==
    [sockets |-> tasks[t].registered, lock |-> 0]
broadcast_snapshot_locked(connections, email, t) ==
    [sockets |-> ConnGet(connections, email), lock |-> t]
broadcast_snapshot(connections, email, t) ==
    [sockets |-> ConnGet(connections, email), lock |-> 0]

\* the second "async with self._lock" of broadcast
broadcast_prune(connections, stale) ==
    [a \in DOMAIN connections |-> connections[a] \ stale]

\* list(set): the sockets in any order
Orders(S) == { q \in [1..Cardinality(S) -> S] : \A i, j \in DOMAIN q : i # j => q[i] # q[j] }

\* websocket.send_json: what the await ends with
SendOutcomes(websocket, gone) ==
    IF websocket \in gone THEN { "RuntimeError", "WebSocketDisconnect" } ELSE { "sent" }

\* the websocket endpoint (or any caller) registers a connection
Connect ==
    /\ _lock = 0
    /\ \E email \in Accounts, websocket \in WebSockets \ closed :
          _connections' = connect(_connections, email, websocket)
    /\ _loop' = TRUE
    /\ UNCHANGED <<storevars, now, gatewayvars, _lock, tasks, closed>>

Disconnect ==
    /\ _lock = 0
    /\ \E email \in Accounts, websocket \in WebSockets :
          /\ _connections' = disconnect(_connections, email, websocket)
          /\ _connections' # _connections
    /\ UNCHANGED <<storevars, now, gatewayvars, _lock, _loop, tasks, closed>>

\* the peer of a websocket goes away: from now on a send on it fails
Close ==
    /\ \E websocket \in WebSockets \ closed : closed' = closed \cup {websocket}
    /\ UNCHANGED <<storevars, now, gatewayvars, _connections, _lock, _loop, tasks>>

Publish(p) ==
    /\ tasks[p].pc = "none"
    /\ p > 1 => tasks[p - 1].pc # "none"
    /\ \E email \in Accounts, payload \in Payloads(p), delay_seconds \in Delays,
          running_loop \in BOOLEAN :
          tasks' = publish(tasks, p, _loop, running_loop, email, payload, delay_seconds)
    /\ UNCHANGED <<storevars, now, gatewayvars, _connections, _lock, _loop, closed>>

\* a publish that also records the connections the account has at the call
PublishRecorded ==
    /\ tasks[1].pc = "none"
    /\ \E email \in Accounts, payload \in Payloads(1), delay_seconds \in Delays,
          running_loop \in BOOLEAN :
          tasks' = [publish(tasks, 1, _loop, running_loop, email, payload, delay_seconds)
                       EXCEPT ![1].registered = ConnGet(_connections, email)]
    /\ UNCHANGED <<storevars, now, gatewayvars, _connections, _lock, _loop, closed>>

\* _broadcast_with_delay after its sleep, and broadcast up to its first send:
\* the snapshot under the lock, then send_json on the first socket is awaited
Broadcast(t) ==
    /\ tasks[t].pc = "scheduled"
    /\ _lock = 0
    /\ LET snap == broadcast_snapshot(_connections, tasks[t].email, t) IN
       /\ _lock' = snap.lock
       /\ \E sockets \in Orders(snap.sockets) :
             tasks' = [tasks EXCEPT ![t] =
                [@ EXCEPT !.pc = IF sockets = <<>> THEN "done" ELSE "sending",
                          !.pending = sockets,
                          !.fired = @ + 1, !.carried = tasks[t].payload]]
    /\ UNCHANGED <<storevars, now, gatewayvars, _connections, _loop, closed>>

\* an awaited send_json ends; broadcast runs on to its next send or to its end
SendReturns(t) ==
    /\ tasks[t].pc = "sending"
    /\ LET websocket == Head(tasks[t].pending)
           rest == Tail(tasks[t].pending)
       IN \E outcome \in SendOutcomes(websocket, closed) :
            LET stale == IF outcome = "RuntimeError"
                         THEN tasks[t].stale \cup {websocket} ELSE tasks[t].stale
                after == [tasks[t] EXCEPT
                            !.stale = stale,
                            !.pending = rest,
                            !.attempted = @ \cup {websocket},
                            !.raised = IF outcome = "WebSocketDisconnect"
                                       THEN {websocket} ELSE @]
            IN IF outcome = "WebSocketDisconnect"
               THEN \* not a RuntimeError: the exception leaves broadcast
                    /\ tasks' = [tasks EXCEPT ![t] = [after EXCEPT !.pc = "failed"]]
                    /\ UNCHANGED <<_connections, _lock>>
               ELSE IF rest # <<>>
               THEN /\ tasks' = [tasks EXCEPT ![t] = after]
                    /\ UNCHANGED <<_connections, _lock>>
               ELSE /\ stale # {} => _lock = 0
                    /\ tasks' = [tasks EXCEPT ![t] =
                                    [after EXCEPT !.pc = "done"]]
                    /\ _connections' = IF stale # {} THEN broadcast_prune(_connections, stale)
                                       ELSE _connections
                    /\ UNCHANGED _lock
    /\ UNCHANGED <<storevars, now, gatewayvars, _loop, closed>>

NextHub ==
    \/ Connect
    \/ Disconnect
    \/ Close
    \/ \E p \in 1..MaxPublishes : Publish(p)
    \/ \E t \in 1..MaxPublishes : Broadcast(t)
    \/ \E t \in 1..MaxPublishes : SendReturns(t)

\* the event loop runs every coroutine it was handed; a send may never end
SpecHub ==
    Init /\ [][NextHub]_vars /\ \A t \in 1..MaxPublishes : WF_vars(Broadcast(t))

\* the hub with a single publish, whose account's connections are recorded
NextHubRecorded ==
    \/ Connect
    \/ Disconnect
    \/ Close
    \/ PublishRecorded
    \/ Broadcast(1)
    \/ SendReturns(1)

SpecHubRecorded == Init /\ [][NextHubRecorded]_vars

\* ================================================================ properties
Lessons(st) == { id \in Ids : st.docs[id] # NoDoc }
VersionOf(st, id, key) ==
    IF get_section_meta(st, id, key) = NoMeta THEN 0
    ELSE get_section_meta(st, id, key).version
MetaKeys(st, id) == IF st.docs[id] = NoDoc THEN {} ELSE DOMAIN st.docs[id].sectionsMeta
SectionWrites == { "put_section", "append_exercises", "create_section_instance" }
LessonMutations ==
    SectionWrites \cup { "update", "delete_section", "put_exercise_generator",
                         "update_icon_url" }
Acted == ops' = ops + 1

\* the listing entry of the lesson and its aggregate carry the same id, title,
\* status and updated_at
ListingAgrees(st, id) ==
    LET i == FirstEntry(st.index, id) IN
    /\ i # 0
    /\ st.index[i].title = st.docs[id].title
    /\ st.index[i].status = st.docs[id].status
    /\ st.index[i].updated_at = st.docs[id].updated_at

\* C3: after a successful mutation of a lesson its listing entry and its
\* aggregate agree on id, title, status and updatedAt.
C3_ListingAgreesAfterMutation ==
    (last.tag = "ok" /\ last.op \in LessonMutations /\ store.docs[last.id] # NoDoc)
        => ListingAgrees(store, last.id)

InMutation(t) == inflight[t].pc = "running"

\* C2: no two Document Store mutations are at the same time between their
\* first backend read and their last backend write.
C2_MutationsSerialized ==
    \A t, u \in Threads : (t # u /\ InMutation(t)) => ~InMutation(u)

\* C4: a successful put_section / append_exercises / create_section_instance
\* raises the version of the section it targets by exactly 1, no step lowers
\* the version of a section that stays in the lesson, and a section write
\* leaves the versions of the other sections of the lesson alone.
C4_VersionStep ==
    [][ Acted =>
          \A id \in Ids : \A key \in MetaKeys(store, id) \cup MetaKeys(store', id) :
            LET v == VersionOf(store, id, key)
                w == VersionOf(store', id, key)
                write == last'.op \in SectionWrites /\ last'.tag = "ok"
            IN /\ (write /\ last'.id = id /\ last'.key = key) => w = v + 1
               /\ (write /\ (last'.id # id \/ last'.key # key)) => w = v
               /\ (last'.op \in LessonMutations /\ key \in MetaKeys(store, id)
                     /\ key \in MetaKeys(store', id)) => w >= v
      ]_vars

\* C5: after put_exercise_generator succeeds the code blob is stored and
\* served back, and the static content of "exercises" is absent or empty.
C5_GeneratorStored ==
    (last.op = "put_exercise_generator" /\ last.tag = "ok")
        => /\ get_exercise_generator(store, last.id) = last.body
           /\ \/ get_section(store, last.id, <<"exercises">>) = Absent
              \/ Strip(get_section(store, last.id, <<"exercises">>)) = <<>>

\* C6: a successful static write to an exercises-family key of a lesson that
\* has a generator binding removes the binding and its code blob, and
\* get_section of the written key returns the content just written.
C6_StaticWriteReplacesGenerator ==
    [][ ( /\ Acted
          /\ last'.op \in SectionWrites /\ last'.tag = "ok"
          /\ _section_base_key(last'.key) = <<"exercises">>
          /\ store.docs[last'.id] # NoDoc
          /\ store.docs[last'.id].exerciseGenerator # NoGen )
        => /\ store'.docs[last'.id].exerciseGenerator = NoGen
           /\ ~HasBlob(store', last'.id, EXERCISE_GENERATOR_FILENAME)
           /\ get_section(store', last'.id, last'.key) = last'.body
      ]_vars

AllVisibleNonEmpty(lesson) ==
    \A i \in DOMAIN lesson.sections :
        \/ _section_base_key(lesson.sections[i].key) \in HIDDEN_BASE_KEYS
        \/ /\ lesson.sections[i].key \in DOMAIN lesson.sectionsMeta
           /\ lesson.sectionsMeta[lesson.sections[i].key].contentLength > 0

\* C7: a lesson whose status is not author-controlled is "ready" exactly when
\* every section with a non-hidden base key has contentLength > 0, and
\* "draft" otherwise.
C7_StatusDerived ==
    \A id \in Lessons(store) :
        ~IsAuthorControlled(store.docs[id].status)
            => store.docs[id].status =
                  (IF AllVisibleNonEmpty(store.docs[id]) THEN "ready" ELSE "draft")

TaxPos(key) ==
    LET hit == { i \in DOMAIN lesson_sections : lesson_sections[i] = _section_base_key(key) }
    IN IF hit = {} THEN Len(lesson_sections) + 1 ELSE CHOOSE i \in hit : TRUE
Canonical(sections) ==
    \A i, j \in DOMAIN sections :
        i < j => \/ TaxPos(sections[i].key) < TaxPos(sections[j].key)
                 \/ /\ TaxPos(sections[i].key) = TaxPos(sections[j].key)
                    /\ \/ TaxPos(sections[i].key) > Len(lesson_sections)
                       \/ _section_index(sections[i].key) <= _section_index(sections[j].key)

\* C8: the sections mapping of every lesson is in canonical order: taxonomy
\* order, ascending instance index within a base key, unrecognized keys last.
C8_SectionsCanonical ==
    \A id \in Lessons(store) : Canonical(store.docs[id].sections)

\* ----------------------------------------------------------------- Gateway
Done(c) == calls[c].pc = "done"
SameFingerprint(c, d) == Fingerprint(calls[c].req) = Fingerprint(calls[d].req)

\* C1: of two calls with the same fingerprint that both missed the cache, the
\* second registered while the first was still in its debounce wait (and no
\* third call carried that fingerprint), exactly one reaches the Document Store.
C1_OneMutationPerBurst ==
    \A c, d \in 1..MaxCalls :
        ( /\ c \in calls[d].overlapped
          /\ Done(c) /\ Done(d)
          /\ \A e \in 1..MaxCalls \ {c, d} : ~SameFingerprint(e, c) )
        => calls[c].stores + calls[d].stores = 1

\* C9: a call whose token was superseded during its wait by a newer call with
\* the same fingerprint ends as "debounced", having made no Document Store
\* call, no result-cache write and no publish.
C9_SupersededNoEffect ==
    \A c \in 1..MaxCalls :
        calls[c].superseded
            => /\ calls[c].pc \in {"waiting", "done"}
               /\ Done(c) => calls[c].result = Debounced
               /\ calls[c].stores = 0
               /\ calls[c].cachew = 0
               /\ calls[c].pubs = 0

\* C10: a call that finds an unexpired entry for its fingerprint in the result
\* cache returns that entry's payload, never registers a debounce token, never
\* waits and makes no Document Store call.
C10_CacheHitShortCircuits ==
    \A c \in 1..MaxCalls :
        calls[c].hit
            => /\ Done(c)
               /\ calls[c].result = calls[c].hitval
               /\ calls[c].token = NoToken
               /\ calls[c].overlapped = {}
               /\ calls[c].stores = 0
               /\ \A k \in DOMAIN latest : k = Fingerprint(calls[c].req) =>
                      \E d \in 1..MaxCalls \ {c} : calls[d].token = latest[k]

\* C10 witness: a call was answered from the cache
C10_Witness ==
    \E c \in 1..MaxCalls :
        calls[c].hit /\ Done(c) /\ calls[c].result.kind \in {"section", "deleted"}

\* C11: a call whose Document Store operation fails (raises, or returns absent
\* or false) adds nothing to the result cache and alters none of its entries,
\* and a call is answered from the cache only with the payload of a call of
\* the same fingerprint whose Document Store operation succeeded: after a
\* failure the next call executes the operation again.
C11_FailuresNotCached ==
    [][ \A c \in 1..MaxCalls :
          /\ ( calls[c].pc = "run" /\ calls'[c].pc = "done" /\ calls'[c].out.tag # "ok" )
                => \A k \in DOMAIN entries' :
                      k \in DOMAIN entries /\ entries'[k] = entries[k]
          /\ ( ~calls[c].hit /\ calls'[c].hit )
                => \E d \in 1..MaxCalls \ {c} :
                      /\ Fingerprint(calls[d].req) = Fingerprint(calls'[c].req)
                      /\ calls[d].out.tag = "ok"
                      /\ calls[d].result = calls'[c].hitval
      ]_vars

\* C11 witness: a call failed in the Document Store and a later call with the
\* same fingerprint went to the Document Store again
C11_Witness ==
    \E c, d \in 1..MaxCalls :
        /\ c # d /\ SameFingerprint(c, d) /\ Done(c) /\ Done(d)
        /\ calls[c].stores = 1 /\ calls[c].out.tag \in {"none", "typeerror"}
        /\ calls[d].token >= calls[c].wake
        /\ calls[d].stores = 1

\* C12: a call that finds for its fingerprint a cached result older than the
\* TTL is not served from the cache: the entry is purged on that access, and
\* the call goes through debounce and makes its Document Store call.
C12_ExpiredEntryNotServed ==
    \A c \in 1..MaxCalls :
        calls[c].stale
            => /\ ~calls[c].hit
               /\ calls[c].token # NoToken
               /\ calls[c].pc = "miss" => Fingerprint(calls[c].req) \notin DOMAIN entries
               /\ Done(c) => calls[c].stores = 1 /\ calls[c].result # Debounced

\* C12 witness: a call found an expired entry and has executed afresh
C12_Witness ==
    \E c \in 1..MaxCalls : calls[c].stale /\ Done(c) /\ calls[c].stores = 1

\* C13: a mutating call on a lesson that is flagged protected is rejected
\* with an error before any debounce registration, Document Store call,
\* result-cache write or publish.
C13_ProtectedRejected ==
    \A c \in 1..MaxCalls :
        calls[c].flagged
            => /\ calls[c].pc \notin {"waiting", "run"}
               /\ Done(c) => calls[c].result.kind = "error"
               /\ calls[c].stores = 0
               /\ calls[c].cachew = 0
               /\ calls[c].pubs = 0

\* ------------------------------------------------------------ Document Store
Listed(st, id) == \E i \in DOMAIN st.index : st.index[i].id = id

\* C14: delete returns false, changing nothing, exactly when neither a listing
\* entry nor an object under the lesson's prefix exists; when it returns true,
\* get returns absent afterwards and the listing has no entry with that id.
C14_DeleteContract ==
    \A id \in Ids :
        LET r == delete(store, _load_index(store), id) IN
        /\ (r.res.tag = "none") <=> (~Listed(store, id) /\ ~PrefixExists(store, id))
        /\ r.res.tag = "none" => r.st = store
        /\ r.res.tag = "ok" => get(r.st, id) = NoDoc /\ ~Listed(r.st, id)
        /\ (last.op = "delete" /\ last.tag = "ok" /\ last.id = id)
              => get(store, id) = NoDoc /\ ~Listed(store, id)

\* C14 witness: a listed lesson was deleted
C14_Witness ==
    /\ last.op = "delete" /\ last.tag = "ok"
    /\ get(store, last.id) = NoDoc /\ ~Listed(store, last.id)
    /\ \E id \in Ids : ~Listed(store, id) /\ ~PrefixExists(store, id)

\* C15: after a successful delete none of the lesson's blobs remain: not its
\* aggregate, no section blob, not its report and not its icon.
C15_DeleteRemovesBlobs ==
    (last.op = "delete" /\ last.tag = "ok")
        => /\ get(store, last.id) = NoDoc
           /\ \A k \in DOMAIN store.blobs :
                 /\ k[1] # last.id
                 /\ k \notin { _icon_key(last.id, ext) : ext \in {"png"} }

\* C16: after create every taxonomy key is in sections and in sectionsMeta with
\* version 1 and contentLength 0, the aggregate is stored, and the listing
\* has gained exactly one entry, which carries the new id.
C16_CreateInitialises ==
    [][ ( Acted /\ last'.op = "create" /\ last'.tag = "ok" )
        => LET lesson == get(store', last'.id) IN
           /\ lesson # NoDoc
           /\ \A i \in DOMAIN lesson_sections :
                 /\ SecHas(lesson.sections, lesson_sections[i])
                 /\ lesson_sections[i] \in DOMAIN lesson.sectionsMeta
                 /\ lesson.sectionsMeta[lesson_sections[i]].version = 1
                 /\ lesson.sectionsMeta[lesson_sections[i]].contentLength = 0
           /\ Len(store'.index) = Len(store.index) + 1
           /\ SubSeq(store'.index, 1, Len(store.index)) = store.index
           /\ store'.index[Len(store'.index)].id = last'.id
      ]_vars

\* C17: no two listing entries share an id, and every id that create or
\* duplicate may return next has no aggregate in the account.
C17_IdsUnique ==
    /\ \A i, j \in DOMAIN store.index : i # j => store.index[i].id # store.index[j].id
    /\ \A id \in _generate_id(_load_index(store)) : get(store, id) = NoDoc

\* C18: a successful create_section_instance returns a key that the lesson
\* did not hold: the bare base key when the lesson holds no instance of the
\* base, otherwise the base with the largest held index plus one; for a base
\* key that is not multi-instance it returns absent and changes nothing.
C18_InstanceAllocation ==
    [][ /\ \A id \in Ids : \A body \in HtmlBodies :
              LET r == create_section_instance(store, get(store, id), id,
                                               <<"samples">>, body, now, FALSE)
              IN r.res.tag = "none" /\ r.st = store
        /\ ( Acted /\ last'.op = "create_section_instance" /\ last'.tag = "ok"
              /\ get(store, last'.id) # NoDoc )
            => LET base == _section_base_key(last'.key)
                   held == { k \in Range(SecKeys(get(store, last'.id).sections)) :
                               _section_base_key(k) = base }
               IN /\ _is_multi_section(base)
                  /\ last'.key \notin held
                  /\ last'.key =
                        IF held = {} THEN base
                        ELSE Append(base, ToStr(MaxOf({ _section_index(k) : k \in held }) + 1))
                  /\ get_section(store', last'.id, last'.key) = last'.body
      ]_vars

\* C19: a successful append_exercises of n items to a section holding m
\* items returns appended = n and total = m + n, and the stored array is
\* afterwards the array held before followed by the new items in order.
C19_AppendConcatenates ==
    [][ ( Acted /\ last'.op = "append_exercises" /\ last'.tag = "ok" )
        => LET prev == ReadRaw(store, get(store, last'.id), last'.id, last'.key)
               held == IF Strip(prev) = <<>> THEN <<>> ELSE JsonLoads(prev).items
               after == get_section(store', last'.id, last'.key)
           IN /\ last'.appended = Len(last'.arg)
              /\ last'.total = Len(held) + Len(last'.arg)
              /\ after # Absent
              /\ JsonLoads(after).kind = "list"
              /\ JsonLoads(after).items = held \o last'.arg
      ]_vars

\* the stored text of the section is there and is not a JSON array
NotAnArray(st, id, key) ==
    LET raw == Strip(ReadRaw(st, get(st, id), id, key)) IN
    /\ get(st, id) # NoDoc
    /\ _section_base_key(key) = <<"exercises">>
    /\ raw # <<>> /\ Head(raw) # "["

\* C20: append_exercises on a section whose stored payload is not a JSON
\* array raises and changes nothing in the backend: blob, sectionsMeta,
\* aggregate, generator binding and listing stay as they were.
C20_AppendRejectsNonArray ==
    \A call \in AppendExercisesCalls :
        NotAnArray(store, call.id, call.key)
            => LET r == Exec(store, Snapshot(store, call), call, "", now)
               IN r.res.tag = "raise" /\ r.st = store

\* C20 witness: an exercises section holds text that is not an array
C20_Witness ==
    \E call \in AppendExercisesCalls :
        /\ NotAnArray(store, call.id, call.key)
        /\ Exec(store, Snapshot(store, call), call, "", now).res.tag = "raise"

\* the section's key is in the lesson's sections mapping and the blob it names
\* is in the backend
BlobThere(st, id, key) ==
    /\ get(st, id) # NoDoc
    /\ SecGet(get(st, id).sections, key) # NoFile
    /\ <<id, SecGet(get(st, id).sections, key)>> \in DOMAIN st.blobs

\* C21: put_section with allow_create false returns absent and writes nothing
\* when the section key is not in the lesson's sections mapping or the blob
\* it names is not in the backend; it writes only when the blob is there.
C21_PutSectionNoCreate ==
    \A call \in PutSectionCalls :
        ~call.allow
            => LET r == Exec(store, Snapshot(store, call), call, "", now) IN
               /\ ~BlobThere(store, call.id, call.key)
                     => r.res.tag = "none" /\ r.st = store
               /\ r.st # store => BlobThere(store, call.id, call.key)
               /\ (last.op = "put_section" /\ last.tag = "ok" /\ ~last.allow)
                     => get_section(store, last.id, last.key) = last.body

\* C21 witness: the key is in the mapping, its blob is gone, and the write
\* without allow_create is refused
C21_Witness ==
    \E call \in PutSectionCalls :
        /\ ~call.allow
        /\ get(store, call.id) # NoDoc
        /\ SecHas(get(store, call.id).sections, call.key)
        /\ ~BlobThere(store, call.id, call.key)
        /\ Exec(store, Snapshot(store, call), call, "", now).res.tag = "none"

\* section keys of up to MaxParts hyphen-separated parts
MaxParts == 3
KeyParts == { "lesson", "exercises", "samples", "x", "0", "1", "2" }
SectionKeyInputs == UNION { [1..n -> KeyParts] : n \in 1..MaxParts }
HeldKeys(st) == UNION { Range(SecKeys(st.docs[id].sections)) : id \in Lessons(st) }

C23_FailedWriteAdvancesNothing ==
    \A call \in PutSectionCalls :
        call.fault = "content"
            => LET r == Exec(store, Snapshot(store, call), call, "", now) IN
               /\ r.res.tag \in {"none", "raise"}
               /\ r.st.docs = store.docs
               /\ r.st.index = store.index

\* C23 witness: a put_section that would have advanced the aggregate and the
\* listing raises at its content write
C23_Witness ==
    \E call \in PutSectionCalls :
        LET r == Exec(store, Snapshot(store, call), call, "", now)
            q == Exec(store, Snapshot(store, [call EXCEPT !.fault = "none"]),
                      [call EXCEPT !.fault = "none"], "", now)
        IN /\ call.fault = "content" /\ r.res.tag = "raise"
           /\ q.res.tag = "ok"
           /\ q.st.docs # store.docs /\ q.st.index # store.index

\* C24: a successful update changes, in the aggregate and in the lesson's
\* listing entry, only the fields it was given and updated_at; sections,
\* sectionsMeta, the other lessons, the other listing entries and every blob
\* stay as they were; when the listing has no entry for the id, one is appended.
C24_UpdateFrame ==
    [][ ( Acted /\ last'.op = "update" /\ last'.tag = "ok" )
        => LET id == last'.id
               old == get(store, id)
               new == get(store', id)
               i == FirstEntry(store.index, id)
           IN /\ old # NoDoc /\ new # NoDoc
              /\ new.title = (IF last'.title # NoneSeq THEN last'.title ELSE old.title)
              /\ new.status = (IF last'.status # None THEN last'.status ELSE old.status)
              /\ new.subject = (IF last'.subject # None THEN last'.subject ELSE old.subject)
              /\ new.sections = old.sections
              /\ new.sectionsMeta = old.sectionsMeta
              /\ new.id = old.id /\ new.iconUrl = old.iconUrl
              /\ new.exerciseGenerator = old.exerciseGenerator
              /\ new.exerciseMode = old.exerciseMode
              /\ \A other \in Ids \ {id} : store'.docs[other] = store.docs[other]
              /\ store'.blobs = store.blobs
              /\ IF i # 0
                 THEN /\ Len(store'.index) = Len(store.index)
                      /\ \A k \in DOMAIN store.index : k # i => store'.index[k] = store.index[k]
                      /\ store'.index[i] =
                            [store.index[i] EXCEPT !.title = new.title, !.status = new.status,
                                                   !.subject = new.subject,
                                                   !.updated_at = new.updated_at]
                 ELSE /\ Len(store'.index) = Len(store.index) + 1
                      /\ SubSeq(store'.index, 1, Len(store.index)) = store.index
                      /\ store'.index[Len(store'.index)].id = id
                      /\ store'.index[Len(store'.index)].title = new.title
      ]_vars

\* C25: a successful duplicate stores a lesson under an id that no listing
\* entry held, with status "draft", every section at version 1 and the
\* source's title followed by "(Copy)", or the source's title as it
\* is when it already ends with "(Copy)"; the source's aggregate, its blobs
\* and the listing entries that were there stay as they were; duplicate of a
\* lesson that does not exist returns absent and writes nothing.
C25_DuplicateFrame ==
    [][ /\ \A id \in Ids : get(store, id) = NoDoc =>
              \A new_id \in Ids :
                  LET r == duplicate(store, get(store, id), _load_index(store), id, new_id, now)
                  IN r.res.tag = "none" /\ r.st = store
        /\ ( Acted /\ last'.op = "duplicate" /\ last'.tag = "ok" )
            => LET id == last'.id
                   source == get(store, id)
                   copy == get(store', last'.new_id)
               IN /\ source # NoDoc /\ copy # NoDoc
                  /\ last'.new_id # id
                  /\ ~Listed(store, last'.new_id)
                  /\ Listed(store', last'.new_id)
                  /\ copy.id = last'.new_id
                  /\ copy.status = "draft"
                  /\ \A k \in Range(SecKeys(copy.sections)) :
                        /\ k \in DOMAIN copy.sectionsMeta
                        /\ copy.sectionsMeta[k].version = 1
                  /\ copy.title # <<>> /\ copy.title[Len(copy.title)] = "(Copy)"
                  /\ copy.title =
                        IF source.title # <<>> /\ source.title[Len(source.title)] = "(Copy)"
                        THEN source.title
                        ELSE IF source.title = <<>> THEN <<"Untitled", "lesson", "(Copy)">>
                        ELSE Append(source.title, "(Copy)")
                  /\ get(store', id) = source
                  /\ \A k \in DOMAIN store.blobs :
                        k[1] = id => k \in DOMAIN store'.blobs /\ store'.blobs[k] = store.blobs[k]
                  /\ \A k \in DOMAIN store'.blobs : k[1] = id => k \in DOMAIN store.blobs
                  /\ Len(store'.index) = Len(store.index) + 1
                  /\ SubSeq(store'.index, 1, Len(store.index)) = store.index
      ]_vars

\* ------------------------------------------------------------------- the hub
\* the sockets a broadcast listed under the lock
Listed_sockets(t) == tasks[t].attempted \cup Range(tasks[t].pending)

\* C26: when a broadcast ends, every connection it listed has had its send
\* attempted, whatever failed on the others, and every connection whose send
\* failed is in no account's connection set.
C26_SendFailureIsolated ==
    [][ \A t \in 1..MaxPublishes :
          ( tasks[t].pc = "sending" /\ tasks'[t].pc \in {"done", "failed"} )
            => /\ tasks'[t].attempted = Listed_sockets(t)
               /\ \A websocket \in tasks'[t].stale \cup tasks'[t].raised :
                     \A a \in DOMAIN _connections' : websocket \notin _connections'[a]
      ]_vars

\* C27: a publish made while the hub has an event loop fires its broadcast
\* once and only once, with the event of that publish, however many other
\* publishes the account has pending and whatever their delays.
C27_PublishesNotCoalesced ==
    /\ [](\A p \in 1..MaxPublishes :
            /\ tasks[p].fired <= 1
            /\ tasks[p].fired = 1 => tasks[p].carried = p /\ tasks[p].payload = p
            /\ tasks[p].pc \in {"none", "dropped", "scheduled"} => tasks[p].fired = 0)
    /\ \A p \in 1..MaxPublishes :
          (tasks[p].pc = "scheduled") ~> (tasks[p].fired = 1)

\* C27 witness: two publishes on one account, the first with a delay, have
\* each fired a broadcast carrying their own event
C27_Witness ==
    /\ tasks[1].email = tasks[2].email
    /\ tasks[1].delay_seconds > 0
    /\ tasks[1].fired = 1 /\ tasks[1].carried = 1
    /\ tasks[2].fired = 1 /\ tasks[2].carried = 2

\* C28: while a send of a broadcast is pending nobody holds the hub's lock,
\* so that connect and disconnect are not kept waiting by it.
C28_LockFreeDuringSend ==
    \A t \in 1..MaxPublishes : tasks[t].pc = "sending" => _lock = 0

\* C28 witness: while a send is pending a connection was added to the
\* account the broadcast is for
C28_Witness ==
    \E t \in 1..MaxPublishes :
        /\ tasks[t].pc = "sending"
        /\ \E websocket \in ConnGet(_connections, tasks[t].email) :
              websocket \notin Listed_sockets(t)

\* a call that has stored its token in the debounce table
Registered(c) == calls[c].pc \in {"waiting", "run"} \/ (Done(c) /\ calls[c].token # NoToken)

\* the calls of c's fingerprint that stored their token while c was asleep
RegisteredDuringWait(c) == { d \in 1..MaxCalls : c \in calls[d].overlapped }

\* C29: calls with distinct fingerprints do not affect each other. A step of
\* one call changes the debounce table and the result cache at that call's
\* fingerprint only and leaves the calls of other fingerprints as they were;
\* a call is debounced only when a call of its own fingerprint stored
\* another token during its wait; and nobody holds the debounce lock while a
\* call waits.
C29_Step ==
    \A c \in 1..MaxCalls :
        calls'[c] # calls[c] =>
            LET fp == Fingerprint(calls'[c].req)
            IN /\ \A k \in DOMAIN latest \ {fp} : k \in DOMAIN latest' /\ latest'[k] = latest[k]
               /\ DOMAIN latest' \subseteq DOMAIN latest \cup {fp}
               /\ \A k \in DOMAIN entries \ {fp} :
                     IF Unexpired(entries, k, now)
                     THEN k \in DOMAIN entries' /\ entries'[k] = entries[k]
                     ELSE k \in DOMAIN entries' => entries'[k] = entries[k]
               /\ DOMAIN entries' \subseteq DOMAIN entries \cup {fp}
               /\ \A d \in 1..MaxCalls :
                     d # c /\ calls[d].pc # "new" /\ ~SameFingerprint(c, d) =>
                        calls'[d] = calls[d]
C29_State ==
    \A c \in 1..MaxCalls :
        /\ Done(c) /\ calls[c].result = Debounced =>
              \E d \in RegisteredDuringWait(c) :
                  SameFingerprint(c, d) /\ calls[d].token # calls[c].token
        /\ calls[c].pc = "waiting" => gate_lock = 0
C29_DistinctFingerprintsIndependent == [][C29_Step]_vars /\ []C29_State

\* C29 witness: two calls with distinct fingerprints are asleep together,
\* so one of them stored its token while the other was suspended, and a
\* third call of the fingerprint of the first has superseded it
C29_Witness ==
    \E c, d, e \in 1..MaxCalls :
        /\ ~SameFingerprint(c, d)
        /\ calls[c].pc = "waiting" /\ calls[d].pc = "waiting"
        /\ e \in RegisteredDuringWait(c) /\ calls[e].token # calls[c].token

\* C30: of the calls of one fingerprint that miss the cache, the one that
\* stored its token last executes: a call during whose wait no call of its
\* fingerprint registered is never debounced and, once done, has made its
\* Document Store call; and when every registered call of a fingerprint is
\* done, a call holding the token left in the debounce table has executed.
C30_LastRegisteredExecutes ==
    \A c \in 1..MaxCalls :
        /\ Registered(c) /\ RegisteredDuringWait(c) = {} =>
              /\ calls[c].result # Debounced
              /\ Done(c) => calls[c].stores = 1
        /\ /\ Registered(c)
           /\ \A d \in 1..MaxCalls : Registered(d) /\ SameFingerprint(c, d) => Done(d)
           => \E d \in 1..MaxCalls :
                 /\ Registered(d) /\ SameFingerprint(c, d)
                 /\ calls[d].token = latest[Fingerprint(calls[c].req)]
                 /\ calls[d].stores = 1

\* C30 witness: a burst of three calls of one fingerprint has ended; the two
\* earlier ones were debounced and the one that registered last executed
C30_Witness ==
    \E c \in 1..MaxCalls :
        /\ Done(c) /\ calls[c].stores = 1
        /\ Cardinality(calls[c].overlapped) = 2
        /\ \A d \in calls[c].overlapped : Done(d) /\ calls[d].result = Debounced

\* C31: every call registers a fresh token: a call that stores its token
\* while another call of its fingerprint is asleep holds a token different
\* from that call's, so the two never both find the table's token their own.
C31_FreshToken ==
    \A c, d \in 1..MaxCalls :
        c \in calls[d].overlapped =>
            /\ calls[c].token # calls[d].token
            /\ ~(calls[c].stores = 1 /\ calls[d].stores = 1)

\* C32: every key of every lesson's sections mapping satisfies the
\* section-key rule, and so does every key after a put_section with
\* allow_create on any key: an index 0 or 1 of a multi-instance base is
\* not stored as "base-0" or "base-1".
C32_StoredKeysValid ==
    /\ \A k \in HeldKeys(store) : is_valid_section_key(k)
    /\ \A id \in Ids : \A k \in { key \in SectionKeyInputs : Len(key) <= 2 } :
          \A body \in BodiesFor(k) :
             \A j \in HeldKeys(put_section(store, get(store, id), id, k, body, TRUE, now,
                                           "none").st) :
                is_valid_section_key(j)

SectionMutations ==
    {"put_section", "append_exercises", "create_section_instance", "delete_section"}

\* C33: while the status of a lesson is author-controlled, no section
\* mutation (put, append, create-instance, delete) changes the status in the
\* aggregate or in the lesson's listing entries.
C33_AuthorStatusKept ==
    [][ ( /\ Acted /\ last'.op \in SectionMutations /\ last'.id \in Ids
          /\ get(store, last'.id) # NoDoc
          /\ StatusLower(get(store, last'.id).status) \in {"published", "active"} )
        => /\ get(store', last'.id) # NoDoc
           /\ get(store', last'.id).status = get(store, last'.id).status
           /\ Len(store'.index) = Len(store.index)
           /\ \A i \in DOMAIN store.index :
                 /\ store'.index[i].id = store.index[i].id
                 /\ store'.index[i].status = store.index[i].status
      ]_vars

\* C34: an event is published only by a call whose Document Store mutation
\* succeeded and whose result is in the result cache when the event is
\* published; a call that ends as debounced, as an error or as a cache hit
\* publishes nothing.
C34_PublishAfterSuccess ==
    [][ \A c \in 1..MaxCalls :
          calls'[c] # calls[c] /\ Done(c)' =>
             LET req == calls'[c].req
                 result == calls'[c].result
                 succeeded == /\ calls[c].pc = "run"
                              /\ calls'[c].out.tag = "ok"
                              /\ result.kind \in {"section", "deleted"}
             IN IF succeeded
                THEN /\ Len(published') = Len(published) + 1
                     /\ SubSeq(published', 1, Len(published)) = published
                     /\ published'[Len(published')].lessonId = req.lesson_id
                     /\ store' # store
                     /\ CacheGet(entries', Fingerprint(req)) = result
                ELSE published' = published
      ]_vars

\* C34 witness: one call has published its event, a call of the same
\* fingerprint was debounced and a later one was served from the cache,
\* and the log holds one event of the Gateway tools
C34_Witness ==
    \E c, d, e \in 1..MaxCalls :
        /\ Done(c) /\ calls[c].out.tag = "ok"
        /\ Done(d) /\ calls[d].result = Debounced /\ SameFingerprint(c, d)
        /\ Done(e) /\ calls[e].hit /\ SameFingerprint(c, e)
        /\ Cardinality({ i \in DOMAIN published :
                            published[i].type # "lesson.created" }) = 1

\* C35: a publish delivers to the connections registered for the account
\* when its broadcast fires, not to those registered when publish was called:
\* the firing broadcast lists exactly the account's current connections and
\* attempts no other.
C35_DeliversToRegisteredAtFire ==
    [][ \A t \in 1..MaxPublishes :
          /\ tasks[t].pc = "scheduled" /\ tasks'[t].pc # "scheduled" =>
                /\ Range(tasks'[t].pending) = ConnGet(_connections, tasks[t].email)
                /\ tasks'[t].attempted = {}
          /\ tasks[t].pc = "sending" =>
                /\ Listed_sockets(t)' = Listed_sockets(t)
                /\ tasks'[t].attempted \subseteq Listed_sockets(t)
      ]_vars

\* C35 witness: a delayed publish was made while w2 was registered for the
\* account; during the delay another connection joined and one that was
\* registered left; the broadcast sent to the first and not to the second
C35_Witness ==
    \E t \in 1..MaxPublishes :
        /\ tasks[t].delay_seconds > 0 /\ tasks[t].pc = "done"
        /\ \E websocket \in tasks[t].attempted \ tasks[t].registered :
              websocket \notin tasks[t].stale
        /\ tasks[t].registered \ tasks[t].attempted # {}

\* C36: a broadcast for an account is sent only to connections that were
\* registered under that account when it took its snapshot: what the firing
\* broadcast lists is within the account's set of that moment, and every
\* send it attempts afterwards is on a listed connection, whatever connect,
\* disconnect, other publishes and failed sends do meanwhile.
C36_OnlyOwnAccount ==
    [][ \A t \in 1..MaxPublishes :
          /\ tasks[t].pc = "scheduled" /\ tasks'[t].pc # "scheduled" =>
                \A websocket \in Listed_sockets(t)' :
                    /\ tasks[t].email \in DOMAIN _connections
                    /\ websocket \in _connections[tasks[t].email]
          /\ tasks[t].pc = "sending" =>
                \A websocket \in tasks'[t].attempted \ tasks[t].attempted :
                    websocket = Head(tasks[t].pending)
      ]_vars

\* C36 witness: broadcasts for two accounts have both ended, each having
\* attempted one connection, not the other's, and one of the sends failed
C36_Witness ==
    /\ tasks[1].email # tasks[2].email
    /\ tasks[1].pc = "done" /\ tasks[2].pc = "done"
    /\ Cardinality(tasks[1].attempted) = 1 /\ Cardinality(tasks[2].attempted) = 1
    /\ tasks[1].attempted # tasks[2].attempted
    /\ tasks[1].stale # {}

\* the section mutations whose write of the aggregate fails
AggregateFaultCalls ==
    { [call EXCEPT !.fault = "aggregate"] :
        call \in PutSectionCalls \cup AppendExercisesCalls
                 \cup CreateSectionInstanceCalls \cup DeleteSectionCalls }

\* C37: in put_section, append_exercises, create_section_instance and
\* delete_section the listing index is rewritten before the aggregate is
\* written: when the write of the aggregate fails, the aggregate is what it
\* was and the lesson's listing entry already carries the status and
\* updated_at of the aggregate that was not written.
C37_IndexBeforeAggregate ==
    \A call \in AggregateFaultCalls :
        LET r == Exec(store, Snapshot(store, call), call, "", now)
            good == [call EXCEPT !.fault = "none"]
            q == Exec(store, Snapshot(store, good), good, "", now)
            i == FirstEntry(store.index, call.id)
        IN q.res.tag = "ok" =>
              /\ r.res.tag = "raise"
              /\ r.st.docs = store.docs
              /\ i # 0
              /\ r.st.index[i].updated_at = get(q.st, call.id).updated_at
              /\ r.st.index[i].status = get(q.st, call.id).status

\* neither the aggregate nor a section blob under the lesson's prefix exists
\* (the public report, which put_report writes for any id, is no section blob)
Gone(st, id) ==
    /\ st.docs[id] = NoDoc
    /\ ~\E k \in DOMAIN st.blobs : k[1] = id /\ k # _report_key(id)

\* C38: a lesson that is gone, as after a delete that returned true, stays
\* gone: an aggregate or a section blob under its prefix comes into being only by a
\* create or a duplicate that allocates its id, whatever was in flight when
\* the delete ran.
C38_DeletedStaysAbsent ==
    [][ \A id \in Ids :
          Gone(store, id) /\ ~Gone(store', id) =>
             /\ Acted /\ last'.tag = "ok"
             /\ \/ last'.op = "create" /\ last'.id = id
                \/ last'.op = "duplicate" /\ last'.new_id = id
      ]_vars

\* C39: a section write of the Gateway that returns a success result for a
\* content leaves that content stored in the section, also when the same
\* content was written before and another content in between.
C39_SuccessMeansStored ==
    [][ \A c \in 1..MaxCalls :
          ( /\ calls'[c] # calls[c] /\ Done(c)'
            /\ calls'[c].req.tool = "lesson_section_create"
            /\ calls'[c].result.kind = "section" )
          => get_section(store', calls'[c].req.lesson_id, calls'[c].req.section_key)
                = calls'[c].req.content_html
      ]_vars

\* C40: whenever a connection is registered the hub has captured its loop,
\* so that a publish from any thread schedules a broadcast; publish drops
\* the event, raising nothing, exactly when no loop was captured and the
\* caller has no running loop, and a dropped event is never broadcast.
C40_LoopCaptured ==
    /\ (\E a \in DOMAIN _connections : _connections[a] # {}) => _loop
    /\ \A p \in 1..MaxPublishes : \A email \in Accounts : \A delay_seconds \in Delays :
          \A running_loop \in BOOLEAN :
             LET pc == publish(tasks, p, _loop, running_loop, email, p, delay_seconds)[p].pc
             IN /\ pc \in {"scheduled", "dropped"}
                /\ pc = "dropped" <=> (~_loop /\ ~running_loop)
    /\ \A p \in 1..MaxPublishes : tasks[p].pc = "dropped" => tasks[p].fired = 0

\* C40 witness: the first publish, made before any connection and with no
\* running loop, was dropped; after a connect the second was scheduled and
\* has fired
C40_Witness ==
    /\ tasks[1].pc = "dropped"
    /\ \E a \in DOMAIN _connections : _connections[a] # {}
    /\ _loop
    /\ tasks[2].fired = 1

====
